---- MODULE Spec2Model ----
(***************************************************************************)
(* Resume_Toolkit document pipeline.                                       *)
(*                                                                         *)
(*   PDF -> text : services/pdfExtractor.ts   (extractTextFromPdf)         *)
(*   text -> PDF : services/resumeGenerator.ts (generatePdfResume)         *)
(*                                                                         *)
(* A JavaScript string is a sequence of one-character strings, so that     *)
(* trimming, splitting and the regular expressions are computed character  *)
(* by character.  Lengths in millimetres and PDF units are integers;       *)
(* 0.7 * h and 0.25 * w are compared after clearing the denominators.      *)
(***************************************************************************)
EXTENDS Integers, Sequences, FiniteSets, TLC

(***************************************************************************)
(* Bounds of the model.                                                    *)
(***************************************************************************)
MaxBody == 5
MaxRuns == 3
MaxPages == 3
MaxSections == 2
MaxWords == 48
MaxCalls == 3
MaxStem == 2
MaxUploads == 2
MaxGenerations == 2
MaxChunks == 2
MaxLayoutPages == 2
MaxInlineWords == 3

(***************************************************************************)
(* Strings.                                                                *)
(***************************************************************************)
NL == "\n"
SP == " "

\* \s of the regular expressions and the white space of String.trim
IsWs(c) == c \in {" ", "\n", "\t"}

\* the line terminators that ^ recognises under the m flag
IsLineTerminator(c) == c = "\n"

\* all strings over alphabet A of length at most n
StringsUpTo(A, n) == UNION {[1..k -> A] : k \in 0..n}

Substring(s, from) == SubSeq(s, from, Len(s))

RECURSIVE TrimStart(_)
TrimStart(s) ==
    IF s # <<>> /\ IsWs(Head(s)) THEN TrimStart(Tail(s)) ELSE s

RECURSIVE TrimEnd(_)
TrimEnd(s) ==
    IF s # <<>> /\ IsWs(s[Len(s)]) THEN TrimEnd(SubSeq(s, 1, Len(s) - 1)) ELSE s

\* String.prototype.trim
Trim(s) == TrimEnd(TrimStart(s))

\* String.prototype.toLowerCase / toUpperCase on the letters that occur
ToLowerChar(c) ==
    CASE c = "F" -> "f" [] c = "B" -> "b" [] c = "S" -> "s" [] c = "E" -> "e"
      [] c = "P" -> "p" [] c = "R" -> "r" [] c = "U" -> "u" [] c = "M" -> "m"
      [] c = "A" -> "a" [] c = "Y" -> "y" [] c = "K" -> "k" [] c = "I" -> "i"
      [] c = "L" -> "l" [] c = "X" -> "x" [] c = "N" -> "n" [] c = "C" -> "c"
      [] c = "O" -> "o" [] c = "J" -> "j" [] c = "T" -> "t" [] c = "D" -> "d"
      [] OTHER -> c

ToUpperChar(c) ==
    CASE c = "f" -> "F" [] c = "b" -> "B" [] c = "s" -> "S" [] c = "e" -> "E"
      [] c = "p" -> "P" [] c = "r" -> "R" [] c = "u" -> "U" [] c = "m" -> "M"
      [] c = "a" -> "A" [] c = "y" -> "Y" [] c = "k" -> "K" [] c = "i" -> "I"
      [] c = "l" -> "L" [] c = "x" -> "X" [] c = "n" -> "N" [] c = "c" -> "C"
      [] c = "o" -> "O" [] c = "j" -> "J" [] c = "t" -> "T" [] c = "d" -> "D"
      [] OTHER -> c

ToLowerCase(s) == [i \in 1..Len(s) |-> ToLowerChar(s[i])]
ToUpperCase(s) == [i \in 1..Len(s) |-> ToUpperChar(s[i])]

\* the least element of a non-empty set of integers
Least(S) == CHOOSE k \in S : \A m \in S : k <= m

\* index of the first occurrence of character c in s at or after i; 0 if none
IndexOfFrom(s, c, i) ==
    LET K == {k \in i..Len(s) : s[k] = c} IN
    IF K = {} THEN 0 ELSE Least(K)

\* String.prototype.split(sep) for a one-character separator
RECURSIVE Split(_, _)
Split(s, sep) ==
    LET k == IndexOfFrom(s, sep, 1) IN
    IF k = 0 THEN <<s>>
    ELSE <<SubSeq(s, 1, k - 1)>> \o Split(SubSeq(s, k + 1, Len(s)), sep)

\* Array.prototype.join(sep)
RECURSIVE Join(_, _)
Join(parts, sep) ==
    IF parts = <<>> THEN <<>>
    ELSE IF Len(parts) = 1 THEN parts[1]
    ELSE parts[1] \o sep \o Join(Tail(parts), sep)

\* Array.prototype.slice(from) and slice(0, to), 0-based as in the source
SliceFrom(a, from) == SubSeq(a, from + 1, Len(a))
SliceTo(a, to) == SubSeq(a, 1, IF to < Len(a) THEN to ELSE Len(a))

(***************************************************************************)
(* Sanitization pass: resumeText.replace(/^\s*\*\s/gm, '- ')               *)
(***************************************************************************)
IsLineStart(s, i) == i = 1 \/ IsLineTerminator(s[i - 1])

RECURSIVE SkipWs(_, _)
SkipWs(s, i) == IF i <= Len(s) /\ IsWs(s[i]) THEN SkipWs(s, i + 1) ELSE i

\* /^\s*\*\s/m tried at position i: the position after the match, or 0.
\* \s* is greedy and "*" is no white space, so there is nothing to backtrack.
BulletMatchEnd(s, i) ==
    LET j == SkipWs(s, i) IN
    IF /\ IsLineStart(s, i)
       /\ j + 1 <= Len(s)
       /\ s[j] = "*"
       /\ IsWs(s[j + 1])
    THEN j + 2
    ELSE 0

\* the leftmost match at or after position i: where it starts, or 0
NextBullet(s, i) ==
    LET K == {k \in i..Len(s) : BulletMatchEnd(s, k) # 0} IN
    IF K = {} THEN 0 ELSE Least(K)

\* the g flag: the text up to the leftmost match is kept, the match becomes
\* "- ", and scanning resumes after the match
RECURSIVE ReplaceBulletsFrom(_, _)
ReplaceBulletsFrom(s, i) ==
    LET k == NextBullet(s, i) IN
    IF k = 0 THEN SubSeq(s, i, Len(s))
    ELSE SubSeq(s, i, k - 1) \o <<"-", " ">> \o ReplaceBulletsFrom(s, BulletMatchEnd(s, k))

\* without the g flag only the first match is replaced
ReplaceFirstBulletFrom(s, i) ==
    LET k == NextBullet(s, i) IN
    IF k = 0 THEN SubSeq(s, i, Len(s))
    ELSE SubSeq(s, i, k - 1) \o <<"-", " ">> \o SubSeq(s, BulletMatchEnd(s, k), Len(s))

SanitizeFirstOnly(resumeText) == ReplaceFirstBulletFrom(resumeText, 1)

Sanitize(resumeText) == ReplaceBulletsFrom(resumeText, 1)

(***************************************************************************)
(* parseResumeStructure                                                    *)
(***************************************************************************)
\* /^(?=##\s)/m matches (with width 0) before position i
IsHeadingStart(s, i) ==
    /\ IsLineStart(s, i)
    /\ i + 2 <= Len(s)
    /\ s[i] = "#"
    /\ s[i + 1] = "#"
    /\ IsWs(s[i + 2])

\* rest.split(/^(?=##\s)/m): a match of width 0 at the start of a piece is
\* skipped, so the piece that starts at p is cut before the next heading
\* start after p
RECURSIVE SplitHeadingsFrom(_, _)
SplitHeadingsFrom(s, p) ==
    LET Q == {q \in (p + 1)..Len(s) : IsHeadingStart(s, q)} IN
    IF Q = {} THEN <<SubSeq(s, p, Len(s))>>
    ELSE <<SubSeq(s, p, Least(Q) - 1)>> \o SplitHeadingsFrom(s, Least(Q))

SplitHeadings(rest) == SplitHeadingsFrom(rest, 1)

\* a section without the part.trim() before the split into lines
SectionOfUntrimmed(part) ==
    LET sectionLines == Split(part, NL) IN
    [title   |-> ToLowerCase(Trim(Substring(sectionLines[1], 4))),
     content |-> Join(SliceFrom(sectionLines, 1), <<NL>>)]

\* the body of splits.forEach for a part that is not blank
SectionOf(part) ==
    LET sectionLines == Split(Trim(part), NL) IN
    [title   |-> ToLowerCase(Trim(Substring(sectionLines[1], 4))),
     content |-> Join(SliceFrom(sectionLines, 1), <<NL>>)]

\* a collection that keeps the first body stored under a title
RECURSIVE CollectSectionsFirstWins(_, _)
CollectSectionsFirstWins(splits, sections) ==
    IF splits = <<>> THEN sections
    ELSE LET part == Head(splits) IN
         IF Trim(part) = <<>> THEN CollectSectionsFirstWins(Tail(splits), sections)
         ELSE LET sec == SectionOf(part) IN
              CollectSectionsFirstWins(Tail(splits),
                  [k \in (DOMAIN sections) \cup {sec.title} |->
                      IF k \in DOMAIN sections THEN sections[k] ELSE sec.content])

\* sections[title] = content, part after part
RECURSIVE CollectSections(_, _)
CollectSections(splits, sections) ==
    IF splits = <<>> THEN sections
    ELSE LET part == Head(splits) IN
         IF Trim(part) = <<>> THEN CollectSections(Tail(splits), sections)
         ELSE LET sec == SectionOf(part) IN
              CollectSections(Tail(splits),
                  [k \in (DOMAIN sections) \cup {sec.title} |->
                      IF k = sec.title THEN sec.content ELSE sections[k]])

EmptySections == [k \in {} |-> <<>>]

parseResumeStructure(markdown) ==
    LET lines == Split(markdown, NL)
        rest  == Join(SliceFrom(lines, 2), <<NL>>)
    IN  [header   |-> SliceTo(lines, 2),
         sections |-> CollectSections(SplitHeadings(rest), EmptySections)]

(***************************************************************************)
(* parseMarkdownForPreview, the parser of the preview.                     *)
(***************************************************************************)
\* lines[k] || '', k counted from 0
LineOrEmpty(lines, k) == IF k + 1 <= Len(lines) THEN lines[k + 1] ELSE <<>>

\* the body of splits.forEach of the preview for a part that is not blank
PreviewSectionOf(part) ==
    LET sectionLines == Split(Trim(part), NL) IN
    [title   |-> Trim(Substring(sectionLines[1], 4)),
     content |-> Join(SliceFrom(sectionLines, 1), <<NL>>)]

\* sections.push({ title, content }), part after part
RECURSIVE PreviewSections(_)
PreviewSections(splits) ==
    IF splits = <<>> THEN <<>>
    ELSE IF Trim(Head(splits)) = <<>> THEN PreviewSections(Tail(splits))
    ELSE <<PreviewSectionOf(Head(splits))>> \o PreviewSections(Tail(splits))

parseMarkdownForPreview(markdown) ==
    IF markdown = <<>>
    THEN [headerInfo |-> [name |-> <<>>, contact |-> <<>>], sections |-> <<>>]
    ELSE LET lines == Split(markdown, NL)
             rest  == Join(SliceFrom(lines, 2), <<NL>>)
         IN  [headerInfo |-> [name    |-> LineOrEmpty(lines, 0),
                              contact |-> LineOrEmpty(lines, 1)],
              sections   |-> PreviewSections(SplitHeadings(rest))]

(***************************************************************************)
(* extractTextFromPdf: the work on one page.                               *)
(* A run is [str, x, y, width, height]: transform[4], transform[5], width  *)
(* and height of a pdf.js text item.                                       *)
(***************************************************************************)
Abs(n) == IF n < 0 THEN -n ELSE n

\* the comparator without the tolerance of 4 units
CompareItemsNoTolerance(a, b) ==
    IF Abs(a.y - b.y) > 0 THEN b.y - a.y ELSE a.x - b.x

\* the comparator handed to sort
CompareItems(a, b) ==
    IF Abs(a.y - b.y) > 4 THEN b.y - a.y ELSE a.x - b.x

IndexPermutations(n) ==
    {p \in [1..n -> 1..n] : \A i, j \in 1..n : i # j => p[i] # p[j]}

\* comparefn is a consistent comparison function for the elements
\* (ECMAScript, Array.prototype.sort)
IsConsistentFor(items) ==
    \A i, j, k \in 1..Len(items) :
        LET ab == CompareItems(items[i], items[j])
            bc == CompareItems(items[j], items[k])
            ac == CompareItems(items[i], items[k])
        IN  /\ (ab < 0 /\ bc < 0) => ac < 0
            /\ (ab = 0 /\ bc = 0) => ac = 0

\* p sorts items by the comparator and keeps the input order of equal items
IsStableSort(items, p) ==
    \A i, j \in 1..Len(items) :
        i < j =>
            LET c == CompareItems(items[p[i]], items[p[j]]) IN
            c < 0 \/ (c = 0 /\ p[i] < p[j])

\* items.slice().sort(comparator): the stable sort when the comparator is
\* consistent for the items, an implementation-defined order when it is not
SortResults(items) ==
    LET n == Len(items)
        ps == IF IsConsistentFor(items)
              THEN {p \in IndexPermutations(n) : IsStableSort(items, p)}
              ELSE IndexPermutations(n)
    IN  {[i \in 1..n |-> items[p[i]]] : p \in ps}

\* the line test with >= for >
StartsNewLineInclusive(item, lastY) == 10 * Abs(item.y - lastY) >= 7 * item.height

\* Math.abs(currentY - lastY) > item.height * 0.7
StartsNewLine(item, lastY) == 10 * Abs(item.y - lastY) > 7 * item.height

\* the space test with >= for >
NeedsSpaceInclusive(item, lastX_end) ==
    LET xGap == item.x - lastX_end IN
    IF Len(item.str) > 0
    THEN 4 * xGap * Len(item.str) >= item.width
    ELSE 4 * xGap >= item.width

\* xGap > charWidth * 0.25, charWidth = width / str.length, or width for ''
NeedsSpace(item, lastX_end) ==
    LET xGap == item.x - lastX_end IN
    IF Len(item.str) > 0
    THEN 4 * xGap * Len(item.str) > item.width
    ELSE 4 * xGap > item.width

\* the for loop over sortedItems[1..], from the state left by sortedItems[0]
RECURSIVE WalkItems(_, _, _)
WalkItems(sortedItems, j, acc) ==
    IF j > Len(sortedItems) THEN Append(acc.lines, acc.currentLine)
    ELSE LET item == sortedItems[j]
             next ==
                IF StartsNewLine(item, acc.lastY)
                THEN [lines       |-> Append(acc.lines, acc.currentLine),
                      currentLine |-> item.str]
                ELSE [lines       |-> acc.lines,
                      currentLine |->
                          IF NeedsSpace(item, acc.lastX_end)
                          THEN acc.currentLine \o <<SP>> \o item.str
                          ELSE acc.currentLine \o item.str]
         IN  WalkItems(sortedItems, j + 1,
                 [lines       |-> next.lines,
                  currentLine |-> next.currentLine,
                  lastY       |-> item.y,
                  lastX_end   |-> item.x + item.width])

AssembleLines(sortedItems) ==
    IF sortedItems = <<>> THEN <<>>
    ELSE WalkItems(sortedItems, 2,
             [lines       |-> <<>>,
              currentLine |-> sortedItems[1].str,
              lastY       |-> sortedItems[1].y,
              lastX_end   |-> sortedItems[1].x + sortedItems[1].width])

\* line.replace(/\s+/g, ' '): every run of white space becomes one space
RECURSIVE CollapseWs(_)
CollapseWs(s) ==
    IF s = <<>> THEN <<>>
    ELSE IF IsWs(Head(s))
         THEN <<SP>> \o CollapseWs(TrimStart(s))
         ELSE <<Head(s)>> \o CollapseWs(Tail(s))

CleanLine(line) == Trim(CollapseWs(line))

MapClean(lines) == [k \in 1..Len(lines) |-> CleanLine(lines[k])]

(***************************************************************************)
(* PdfRenderer.  A renderer value r holds the fields of the PdfRenderer    *)
(* (cursorY, pageNumber) and the jsPDF document it draws on (pages, the    *)
(* draw commands issued so far); threw is set when a jsPDF call raised,    *)
(* after which nothing more is drawn.  checked records that _ensurePage    *)
(* has run since cursorY last changed; every draw command carries the      *)
(* value it was issued under.                                              *)
(***************************************************************************)
PAGE_WIDTH == 210
PAGE_HEIGHT == 297
PAGE_MARGIN == 20
PAGE_LINE_HEIGHT == 5
CONTENT_WIDTH == PAGE_WIDTH - PAGE_MARGIN * 2

\* the value of an array element or property that is absent
Undefined == <<"undefined">>

\* doc.getTextWidth: "W" stands for a long unbroken token such as a URL,
\* every other character is 2 mm wide
GlyphWidth(c) == IF c = "W" THEN 98 ELSE 2

RECURSIVE getTextWidth(_)
getTextWidth(text) ==
    IF text = <<>> THEN 0 ELSE GlyphWidth(Head(text)) + getTextWidth(Tail(text))

\* new jsPDF(...) with a renderer that keeps the cursor it finds
StaleRenderer(oldCursorY, oldPageNumber) ==
    [cursorY |-> oldCursorY, pageNumber |-> oldPageNumber, pages |-> 1,
     draws |-> <<>>, threw |-> FALSE, checked |-> FALSE]

\* new jsPDF(...) and new PdfRenderer(doc)
NewRenderer(oldCursorY, oldPageNumber) ==
    [cursorY |-> PAGE_MARGIN, pageNumber |-> 1, pages |-> 1,
     draws |-> <<>>, threw |-> FALSE, checked |-> FALSE]

\* a check that also breaks the page at the content height itself
ensurePageInclusive(r) ==
    IF r.cursorY >= PAGE_HEIGHT - PAGE_MARGIN
    THEN [r EXCEPT !.pages = @ + 1, !.pageNumber = @ + 1, !.cursorY = PAGE_MARGIN,
                   !.checked = TRUE]
    ELSE [r EXCEPT !.checked = TRUE]

ensurePage(r) ==
    IF r.cursorY > PAGE_HEIGHT - PAGE_MARGIN
    THEN [r EXCEPT !.pages = @ + 1, !.pageNumber = @ + 1, !.cursorY = PAGE_MARGIN,
                   !.checked = TRUE]
    ELSE [r EXCEPT !.checked = TRUE]

\* doc.text(text, x, y) on the current page of the document
DrawText(r, kind, text, x, y) ==
    [r EXCEPT !.draws = Append(@,
        [kind |-> kind, text |-> text, x |-> x, y |-> y, x2 |-> x, y2 |-> y,
         page |-> r.pages, checked |-> r.checked])]

\* doc.line(x1, y1, x2, y2)
DrawLine(r, x1, y1, x2, y2) ==
    [r EXCEPT !.draws = Append(@,
        [kind |-> "line", text |-> <<>>, x |-> x1, y |-> y1, x2 |-> x2, y2 |-> y2,
         page |-> r.pages, checked |-> r.checked])]

Advance(r, dy) == [r EXCEPT !.cursorY = @ + dy, !.checked = FALSE]

\* token.text.split(' ') without the empty pieces
RECURSIVE NonEmpty(_)
NonEmpty(parts) ==
    IF parts = <<>> THEN <<>>
    ELSE IF Head(parts) = <<>> THEN NonEmpty(Tail(parts))
    ELSE <<Head(parts)>> \o NonEmpty(Tail(parts))

\* flatten: the words of the text tokens, in order ("br" tokens carry none)
RECURSIVE FlattenWords(_)
FlattenWords(tokens) ==
    IF tokens = <<>> THEN <<>>
    ELSE (IF Head(tokens).type = "text"
          THEN NonEmpty(Split(Head(tokens).text, SP))
          ELSE <<>>)
         \o FlattenWords(Tail(tokens))

\* a loop that also wraps the word that ends exactly at x + maxWidth
RECURSIVE RenderWordsWrapInclusive(_, _, _, _, _)
RenderWordsWrapInclusive(r, words, cursorX, x, maxWidth) ==
    IF r.threw \/ words = <<>> THEN r
    ELSE LET r1 == ensurePage(r)
             textToRender == Head(words) \o <<SP>>
             wordWidth == getTextWidth(textToRender)
             wraps == cursorX + wordWidth >= x + maxWidth
             atX == IF wraps THEN x ELSE cursorX
             r2 == IF wraps THEN Advance(r1, PAGE_LINE_HEIGHT) ELSE r1
             r3 == DrawText(r2, "word", textToRender, atX, r2.cursorY)
         IN  RenderWordsWrapInclusive(r3, Tail(words), atX + wordWidth, x, maxWidth)

\* the loop over the words of _renderInlineTokens
RECURSIVE RenderWords(_, _, _, _, _)
RenderWords(r, words, cursorX, x, maxWidth) ==
    IF r.threw \/ words = <<>> THEN r
    ELSE LET r1 == ensurePage(r)
             textToRender == Head(words) \o <<SP>>
             wordWidth == getTextWidth(textToRender)
             wraps == cursorX + wordWidth > x + maxWidth
             atX == IF wraps THEN x ELSE cursorX
             r2 == IF wraps THEN Advance(r1, PAGE_LINE_HEIGHT) ELSE r1
             r3 == DrawText(r2, "word", textToRender, atX, r2.cursorY)
         IN  RenderWords(r3, Tail(words), atX + wordWidth, x, maxWidth)

renderInlineTokens(r, tokens, x, y, maxWidth) ==
    Advance(RenderWords([r EXCEPT !.cursorY = y, !.checked = @ /\ y = r.cursorY],
                        FlattenWords(tokens), x, x, maxWidth),
            PAGE_LINE_HEIGHT)

(***************************************************************************)
(* marked.lexer(markdown, {gfm, breaks}) on the supported subset: blank    *)
(* lines, "- " list lines (a tight, flat list) and paragraph lines.        *)
(***************************************************************************)
\* a token: its type, its text, and its tokens (of a list: its items)
Token(type, text, tokens) == [type |-> type, text |-> text, tokens |-> tokens]

IsBlankLine(line) == Trim(line) = <<>>
IsListLine(line) == Len(line) >= 2 /\ line[1] = "-" /\ line[2] = " "

\* the text tokens of the lines of a paragraph, with a br between two lines
RECURSIVE InlineOf(_)
InlineOf(plines) ==
    IF plines = <<>> THEN <<>>
    ELSE <<Token("text", Head(plines), <<>>)>>
         \o (IF Len(plines) > 1 THEN <<Token("br", <<>>, <<>>)>> ELSE <<>>)
         \o InlineOf(Tail(plines))

\* the number of consecutive lines of one kind from line k on
RECURSIVE RunLength(_, _, _)
RunLength(ls, k, kind) ==
    IF k > Len(ls) THEN 0
    ELSE LET isKind ==
                CASE kind = "blank" -> IsBlankLine(ls[k])
                  [] kind = "list"  -> IsListLine(ls[k])
                  [] OTHER          -> ~IsBlankLine(ls[k]) /\ ~IsListLine(ls[k])
         IN  IF isKind THEN 1 + RunLength(ls, k + 1, kind) ELSE 0

ListItems(ls) ==
    [k \in 1..Len(ls) |->
        Token("list_item", Substring(ls[k], 3),
              <<Token("text", Trim(Substring(ls[k], 3)), <<>>)>>)]

RECURSIVE LexLines(_, _)
LexLines(ls, k) ==
    IF k > Len(ls) THEN <<>>
    ELSE LET kind == IF IsBlankLine(ls[k]) THEN "blank"
                     ELSE IF IsListLine(ls[k]) THEN "list" ELSE "paragraph"
             n == RunLength(ls, k, kind)
             block == SubSeq(ls, k, k + n - 1)
             token == CASE kind = "blank" -> Token("space", <<>>, <<>>)
                        [] kind = "list"  -> Token("list", <<>>, ListItems(block))
                        [] OTHER          -> Token("paragraph", <<>>, InlineOf(block))
         IN  <<token>> \o LexLines(ls, k + n)

lexer(markdown) == IF markdown = <<>> THEN <<>> ELSE LexLines(Split(markdown, NL), 1)

(***************************************************************************)
(* PdfRenderer.renderMarkdown                                              *)
(***************************************************************************)
\* token.tokens.forEach of a list item
RECURSIVE RenderItemContent(_, _, _, _)
RenderItemContent(r, contents, indent, effectiveMaxWidth) ==
    IF r.threw \/ contents = <<>> THEN r
    ELSE LET c == Head(contents)
             r1 == IF c.type = "paragraph"
                   THEN renderInlineTokens(r, c.tokens, indent + 4, r.cursorY,
                                           effectiveMaxWidth - 4)
                   ELSE IF c.type = "text"
                   THEN renderInlineTokens(r, <<Token("text", c.text, <<>>)>>,
                                           indent + 4, r.cursorY, effectiveMaxWidth - 4)
                   ELSE r
         IN  RenderItemContent(r1, Tail(contents), indent, effectiveMaxWidth)

\* renderTokens: tokens.forEach with the switch on token.type
RECURSIVE renderTokens(_, _, _, _, _)
renderTokens(r, tokens, x, maxWidth, listLevel) ==
    IF r.threw \/ tokens = <<>> THEN r
    ELSE LET token == Head(tokens)
             r0 == ensurePage(r)
             indent == x + (listLevel * 5)
             effectiveMaxWidth == maxWidth - (listLevel * 5)
             r1 == CASE token.type = "heading" -> r0
                     [] token.type = "paragraph" ->
                          Advance(renderInlineTokens(r0, token.tokens, x, r0.cursorY,
                                                     maxWidth), 1)
                     [] token.type = "list" ->
                          LET inner == renderTokens(r0, token.tokens, x, maxWidth,
                                                    listLevel + 1)
                          IN  IF listLevel = 0 THEN Advance(inner, 3) ELSE inner
                     [] token.type = "list_item" ->
                          Advance(RenderItemContent(
                                      DrawText(r0, "bullet", <<"o">>, indent, r0.cursorY),
                                      token.tokens, indent, effectiveMaxWidth),
                                  -1)
                     [] token.type = "space" -> r0
                     [] OTHER ->
                          IF token.text # <<>>
                          THEN renderInlineTokens(r0, <<Token("text", token.text, <<>>)>>,
                                                  x, r0.cursorY, maxWidth)
                          ELSE r0
         IN  renderTokens(r1, Tail(tokens), x, maxWidth, listLevel)

renderMarkdown(r, markdown, x, maxWidth) ==
    renderTokens(r, lexer(markdown), x, maxWidth, 0)

(***************************************************************************)
(* The four templates: header, then one step per key of sectionOrder.      *)
(***************************************************************************)
SummaryKey == <<"s", "u", "m", "m", "a", "r", "y">>
SkillsKey == <<"s", "k", "i", "l", "l", "s">>
ExperienceKey == <<"e", "x", "p", "e", "r", "i", "e", "n", "c", "e">>
ProjectsKey == <<"p", "r", "o", "j", "e", "c", "t", "s">>
EducationKey == <<"e", "d", "u", "c", "a", "t", "i", "o", "n">>
ReferencesKey == <<"r", "e", "f", "e", "r", "e", "n", "c", "e", "s">>

\* data.header[k], k counted from 0
HeaderAt(data, k) == IF k + 1 <= Len(data.header) THEN data.header[k + 1] ELSE Undefined

\* doc.text raises for a text that is neither a string nor an array
TextRaises(text) == text = Undefined

\* the test with "key in data.sections" for the truthiness of the body
SectionListed(data, key) == key \in DOMAIN data.sections

\* if (data.sections[key]): the key is there and its body is not ''
SectionShown(data, key) ==
    key \in DOMAIN data.sections /\ data.sections[key] # <<>>

\* key.charAt(0).toUpperCase() + key.slice(1)
Capitalize(key) == <<ToUpperChar(key[1])>> \o SubSeq(key, 2, Len(key))

\* the two header lines, drawn at x, with the advances after each
RenderHeader(r, data, x, afterName, afterContact) ==
    LET r1 == Advance(DrawText(r, "name", HeaderAt(data, 0), x, r.cursorY), afterName)
    IN  IF TextRaises(HeaderAt(data, 1))
        THEN [r1 EXCEPT !.threw = TRUE]
        ELSE Advance(DrawText(r1, "contact", HeaderAt(data, 1), x, r1.cursorY),
                     afterContact)

ClassicOrder == <<SummaryKey, SkillsKey, ExperienceKey, ProjectsKey, EducationKey>>
ProfessionalOrder == <<SummaryKey, SkillsKey, ExperienceKey, ProjectsKey, EducationKey>>
TechnicalOrder == <<SummaryKey, SkillsKey, ProjectsKey, ExperienceKey, EducationKey>>
ModernOrder == <<SummaryKey, ExperienceKey, ProjectsKey, SkillsKey, EducationKey>>

renderClassicHeader(r, data) == RenderHeader(r, data, PAGE_WIDTH \div 2, 8, 12)

renderClassicSection(r, data, key) ==
    IF ~SectionShown(data, key) THEN r
    ELSE LET r1 == Advance(DrawText(r, "title", Capitalize(key), PAGE_MARGIN, r.cursorY), 2)
             r2 == Advance(DrawLine(r1, PAGE_MARGIN, r1.cursorY,
                                    PAGE_WIDTH - PAGE_MARGIN, r1.cursorY), 8)
         IN  Advance(renderMarkdown(r2, data.sections[key], PAGE_MARGIN, CONTENT_WIDTH), 4)

renderProfessionalHeader(r, data) == RenderHeader(r, data, PAGE_MARGIN, 8, 10)

renderProfessionalSection(r, data, key) ==
    IF ~SectionShown(data, key) THEN r
    ELSE LET r1 == Advance(DrawText(r, "title", ToUpperCase(Capitalize(key)),
                                    PAGE_MARGIN, r.cursorY), 2)
             r2 == Advance(DrawLine(r1, PAGE_MARGIN, r1.cursorY,
                                    PAGE_WIDTH - PAGE_MARGIN, r1.cursorY), 8)
         IN  Advance(renderMarkdown(r2, data.sections[key], PAGE_MARGIN, CONTENT_WIDTH), 4)

renderTechnicalHeader(r, data) == RenderHeader(r, data, PAGE_MARGIN, 8, 12)

\* a technical section that draws the title of every key of the document
renderTechnicalSectionListed(r, data, key) ==
    IF ~SectionListed(data, key) THEN r
    ELSE LET r1 == DrawText(r, "prefix", <<">", ">", " ">>, PAGE_MARGIN, r.cursorY)
             r2 == Advance(DrawText(r1, "title", Capitalize(key),
                                    PAGE_MARGIN + getTextWidth(<<">", ">", " ">>),
                                    r1.cursorY), 8)
         IN  Advance(renderMarkdown(r2, data.sections[key], PAGE_MARGIN, CONTENT_WIDTH), 4)

renderTechnicalSection(r, data, key) ==
    IF ~SectionShown(data, key) THEN r
    ELSE LET r1 == DrawText(r, "prefix", <<">", ">", " ">>, PAGE_MARGIN, r.cursorY)
             r2 == Advance(DrawText(r1, "title", Capitalize(key),
                                    PAGE_MARGIN + getTextWidth(<<">", ">", " ">>),
                                    r1.cursorY), 8)
         IN  Advance(renderMarkdown(r2, data.sections[key], PAGE_MARGIN, CONTENT_WIDTH), 4)

renderModernHeader(r, data) ==
    LET r1 == RenderHeader(r, data, PAGE_MARGIN, 8, 8)
    IN  IF r1.threw THEN r1
        ELSE Advance(DrawLine(r1, PAGE_MARGIN, r1.cursorY,
                              PAGE_WIDTH - PAGE_MARGIN, r1.cursorY), 10)

renderModernSection(r, data, key) ==
    IF ~SectionShown(data, key) THEN r
    ELSE LET r1 == Advance(r, 4)
             r2 == DrawLine(r1, PAGE_MARGIN, r1.cursorY - 4, PAGE_MARGIN, r1.cursorY + 4)
             r3 == Advance(DrawText(r2, "title", Capitalize(key), PAGE_MARGIN + 3,
                                    r2.cursorY), 8)
         IN  Advance(renderMarkdown(r3, data.sections[key], PAGE_MARGIN, CONTENT_WIDTH), 4)

\* switch (templateId): any other value is rendered as classic
TemplateIds == {"classic", "professional", "technical", "modern", "other"}

\* a dispatch in which every template uses the order of the classic one
sectionOrderOfClassic(templateId) == ClassicOrder

sectionOrder(templateId) ==
    CASE templateId = "professional" -> ProfessionalOrder
      [] templateId = "technical" -> TechnicalOrder
      [] templateId = "modern" -> ModernOrder
      [] OTHER -> ClassicOrder

RenderTemplateHeader(templateId, r, data) ==
    CASE templateId = "professional" -> renderProfessionalHeader(r, data)
      [] templateId = "technical" -> renderTechnicalHeader(r, data)
      [] templateId = "modern" -> renderModernHeader(r, data)
      [] OTHER -> renderClassicHeader(r, data)

\* a template that appends the references after its last section
RenderTemplateSectionAndReferences(templateId, r, data, key) ==
    LET r1 == CASE templateId = "professional" -> renderProfessionalSection(r, data, key)
                [] templateId = "technical" -> renderTechnicalSection(r, data, key)
                [] templateId = "modern" -> renderModernSection(r, data, key)
                [] OTHER -> renderClassicSection(r, data, key)
    IN  IF key = EducationKey THEN renderClassicSection(r1, data, ReferencesKey) ELSE r1

RenderTemplateSection(templateId, r, data, key) ==
    CASE templateId = "professional" -> renderProfessionalSection(r, data, key)
      [] templateId = "technical" -> renderTechnicalSection(r, data, key)
      [] templateId = "modern" -> renderModernSection(r, data, key)
      [] OTHER -> renderClassicSection(r, data, key)

\* sectionOrder.forEach from the k-th key on
RECURSIVE RenderSectionsFrom(_, _, _, _)
RenderSectionsFrom(templateId, r, data, k) ==
    IF r.threw \/ k > Len(sectionOrder(templateId)) THEN r
    ELSE RenderSectionsFrom(templateId,
             RenderTemplateSection(templateId, r, data, sectionOrder(templateId)[k]),
             data, k + 1)

\* the whole of a template function on a fresh document
RenderTemplate(templateId, data) ==
    LET r1 == RenderTemplateHeader(templateId, NewRenderer(0, 0), data)
    IN  IF r1.threw THEN r1 ELSE RenderSectionsFrom(templateId, r1, data, 1)

(***************************************************************************)
(* State.                                                                  *)
(***************************************************************************)
VARIABLES
    body,       \* text harness: the text B under the heading "## Foo"
    trailer,    \* text harness: TRUE when a section "## Bar" follows B
    passes,     \* text harness: results of the successive sanitization passes
    parsed      \* text harness: <<parseResumeStructure(markdown)>> once parsed

textVars == <<body, trailer, passes, parsed>>

VARIABLES
    pdf,            \* the decoded document: per page, textContent.items
    epc,            \* extractTextFromPdf: the await the call is suspended at
    pageNo,         \* the page loop variable i
    items,          \* textContent.items of the page fetched last
    sortedItems,    \* sortedItems of the page processed last
    lines,          \* lines of the page processed last
    allPagesText,
    extracted,      \* <<text>> once extractTextFromPdf has returned
    requests,       \* the page numbers passed to pdf.getPage so far, in order
    failure         \* the decoder call that rejected, "none" if none did

extractVars == <<pdf, epc, pageNo, items, sortedItems, lines, allPagesText, extracted,
                 requests, failure>>

VARIABLES
    family,         \* which inputs the calls of generatePdfResume draw from
    calls,          \* the number of calls of generatePdfResume so far
    docSpec,        \* how resumeText was put together (header lines, sections)
    resumeText,
    templateId,
    gpc,            \* generatePdfResume: the statement the call has reached
    sanitizedResumeText,
    parsedData,
    renderer,       \* the PdfRenderer of the call and the document it draws on
    sectionIdx,     \* position of sectionOrder.forEach
    outcome,        \* how the last call ended: "saved" or "alert"
    saved,          \* the number of doc.save calls
    alerts,         \* the number of alerts raised by the catch block
    firstResult     \* <<input and output of the first call>> once it has ended

renderVars == <<family, calls, docSpec, resumeText, templateId, gpc,
                sanitizedResumeText, parsedData, renderer, sectionIdx, outcome,
                saved, alerts, firstResult>>

VARIABLES
    filename,           \* ResumePreview: the text of the filename input
    isModalOpen,        \* ResumePreview: the download dialog is shown
    downloadTemplate,   \* ResumePreview: the template chosen in the dialog
    savedAs,            \* the filenames handed to doc.save, in order
    callerSaw           \* how the last generatePdfResume call ended for its caller

downloadVars == <<filename, isModalOpen, downloadTemplate, savedAs, callerSaw>>

VARIABLES
    view,                   \* App: 'opening', 'builder' or 'analyzer'
    upc,                    \* handleFileUpload: the await the handler is suspended at
    uploads,                \* the number of files uploaded so far
    uiError,                \* error of the component: TRUE when a message is shown
    isLoading,
    resumeTextForAnalyzer,  \* App: <<text>> once handleNavigateToAnalyzer has set it
    resumeData              \* App: where the form data come from, and of which text

uploadVars == <<view, upc, uploads, uiError, isLoading, resumeTextForAnalyzer, resumeData>>

VARIABLES
    hpc,                    \* handleGenerate: the await the handler is suspended at
    generations,            \* the number of handleGenerate calls so far
    stream,                 \* the chunks the response stream has yet to yield
    fullText,
    generatedResumeText,    \* App state, kept in localStorage
    suggestedKeywords,      \* App state, kept in localStorage
    serviceFailure,         \* the service call of the last request that failed
    prior                   \* App state as it was when the last request began

generateVars == <<hpc, generations, stream, fullText, generatedResumeText,
                  suggestedKeywords, serviceFailure, prior>>

\* the state of the components around the two services
appVars == <<downloadVars, uploadVars, generateVars>>

vars == <<textVars, extractVars, renderVars, appVars>>

(***************************************************************************)
(* The pure text functions, applied to inputs drawn from bounded sets.     *)
(***************************************************************************)
TextAlphabet == {"*", " ", "\n", "a", "#"}

FooKey == <<"f", "o", "o">>
BarKey == <<"b", "a", "r">>

\* name line, contact line, "## Foo", B and optionally "## Bar" with a body
MarkdownOf(b, t) ==
    <<"J", "o", "\n", "j", "@", "x", "\n", "#", "#", " ", "F", "o", "o", "\n">>
    \o b
    \o (IF t THEN <<"\n", "#", "#", " ", "B", "a", "r", "\n", "z">> ELSE <<>>)

TextIdle ==
    /\ body = <<>>
    /\ trailer = FALSE
    /\ passes = <<>>
    /\ parsed = <<>>

ExtractIdle ==
    /\ pdf = <<>>
    /\ epc = "idle"
    /\ pageNo = 0
    /\ items = <<>>
    /\ sortedItems = <<>>
    /\ lines = <<>>
    /\ allPagesText = <<>>
    /\ extracted = <<>>
    /\ requests = <<>>
    /\ failure = "none"

NoData == [header |-> <<>>, sections |-> EmptySections]
NoDoc == [hdr |-> 0, secs |-> <<>>]
NoRenderer ==
    [cursorY |-> 0, pageNumber |-> 0, pages |-> 0, draws |-> <<>>, threw |-> FALSE,
     checked |-> FALSE]

RenderIdle ==
    /\ family = "none"
    /\ calls = 0
    /\ docSpec = NoDoc
    /\ resumeText = <<>>
    /\ templateId = "classic"
    /\ gpc = "idle"
    /\ sanitizedResumeText = <<>>
    /\ parsedData = NoData
    /\ renderer = NoRenderer
    /\ sectionIdx = 0
    /\ outcome = "none"
    /\ saved = 0
    /\ alerts = 0
    /\ firstResult = <<>>

DefaultFilename ==
    <<"A", "I", "-", "G", "e", "n", "e", "r", "a", "t", "e", "d", "-",
      "R", "e", "s", "u", "m", "e">>

DownloadIdle ==
    /\ filename = DefaultFilename
    /\ isModalOpen = FALSE
    /\ downloadTemplate = "classic"
    /\ savedAs = <<>>
    /\ callerSaw = "none"

\* emptyResume
EmptyResume == [from |-> "form", text |-> <<>>]

UploadIdle ==
    /\ view = "opening"
    /\ upc = "idle"
    /\ uploads = 0
    /\ uiError = FALSE
    /\ isLoading = FALSE
    /\ resumeTextForAnalyzer = <<>>
    /\ resumeData = EmptyResume

NoPrior == [text |-> <<>>, keywords |-> <<>>]

GenerateIdle ==
    /\ hpc = "idle"
    /\ generations = 0
    /\ stream = <<>>
    /\ fullText = <<>>
    /\ generatedResumeText = <<>>
    /\ suggestedKeywords = <<>>
    /\ serviceFailure = "none"
    /\ prior = NoPrior

AppIdle == DownloadIdle /\ UploadIdle /\ GenerateIdle

InitText ==
    /\ body \in StringsUpTo(TextAlphabet, MaxBody)
    /\ trailer = FALSE
    /\ passes = <<>>
    /\ parsed = <<>>
    /\ ExtractIdle
    /\ RenderIdle
    /\ AppIdle

\* one more application of the sanitization pass to its own result
SanitizePass ==
    /\ parsed = <<>>
    /\ Len(passes) < 2
    /\ passes' = Append(passes,
                    Sanitize(IF passes = <<>> THEN body ELSE passes[Len(passes)]))
    /\ UNCHANGED <<body, trailer, parsed>>
    /\ UNCHANGED <<extractVars, renderVars, appVars>>

\* the text is parsed, alone or with a further section after it
ParseStructure ==
    /\ parsed = <<>>
    /\ passes = <<>>
    /\ \E t \in BOOLEAN :
          /\ trailer' = t
          /\ parsed' = <<parseResumeStructure(MarkdownOf(body, t))>>
    /\ UNCHANGED <<body, passes>>
    /\ UNCHANGED <<extractVars, renderVars, appVars>>

NextText == SanitizePass \/ ParseStructure

SpecText == InitText /\ [][NextText]_vars

(***************************************************************************)
(* The two parsers, applied to one Markdown text: body is the whole text,  *)
(* parsed holds the result of the PDF parser and that of the preview.      *)
(***************************************************************************)
ParseAlphabet == {"#", " ", "\n", "a", "A"}

\* texts of no, one and two lines, and two header lines followed by any
\* text over the alphabet
ParseInputs ==
    {<<>>, <<"J", "o">>, <<"J", "o", "\n", "j", "@", "x">>}
    \cup {<<"J", "o", "\n", "j", "@", "x", "\n">> \o b :
             b \in StringsUpTo(ParseAlphabet, MaxBody)}

InitParse ==
    /\ body \in ParseInputs
    /\ trailer = FALSE
    /\ passes = <<>>
    /\ parsed = <<>>
    /\ ExtractIdle
    /\ RenderIdle
    /\ AppIdle

\* parseResumeStructure(markdown) and parseMarkdownForPreview(markdown)
ParseBoth ==
    /\ parsed = <<>>
    /\ parsed' = <<parseResumeStructure(body), parseMarkdownForPreview(body)>>
    /\ UNCHANGED <<body, trailer, passes>>
    /\ UNCHANGED <<extractVars, renderVars, appVars>>

NextParse == ParseBoth

SpecParse == InitParse /\ [][NextParse]_vars

(***************************************************************************)
(* extractTextFromPdf as a process: one action per stretch between awaits. *)
(***************************************************************************)
RunXs == {0, 10, 21}
RunYs == {100, 104}
RunYsOfFirst == {100, 104, 107, 108}
RunHeights == {5, 10}
RunWidths == {8}

\* the text of the k-th run of a page
RunStr(k) ==
    CASE k = 1 -> <<"a">>
      [] k = 2 -> <<"b">>
      [] k = 3 -> <<" ", "c">>
      [] OTHER -> <<"d">>

\* the k-th run of a page; the first one may also lie a line higher, and the
\* runs after the third vary in their baseline only
RunsAt(k) ==
    [str : {RunStr(k)},
     x : IF k > 3 THEN {10} ELSE RunXs,
     y : IF k = 1 THEN RunYsOfFirst ELSE RunYs,
     width : RunWidths,
     height : IF k > 3 THEN {10} ELSE RunHeights]

\* the pages of n runs
RECURSIVE PagesOf(_)
PagesOf(n) ==
    IF n = 0 THEN {<<>>}
    ELSE {Append(p, r) : p \in PagesOf(n - 1), r \in RunsAt(n)}

\* a page without runs and a page with one run, for the documents of
\* several pages
PlainPages ==
    {<<>>, <<[str |-> <<"a">>, x |-> 0, y |-> 100, width |-> 8, height |-> 10]>>,
     <<[str |-> <<"b">>, x |-> 0, y |-> 100, width |-> 8, height |-> 10]>>}

\* the documents: one page of up to maxRuns runs, several plain pages up to
\* maxPages, and the document without pages
ExtractDocs(maxRuns, maxPages) ==
    {<<p>> : p \in UNION {PagesOf(n) : n \in 0..maxRuns}}
    \cup UNION {[1..n -> PlainPages] : n \in 2..maxPages}
    \cup {<<>>}

InitExtract ==
    /\ TextIdle
    /\ RenderIdle
    /\ AppIdle
    /\ pdf \in ExtractDocs(MaxRuns, MaxPages)
    /\ epc = "start"
    /\ pageNo = 0
    /\ items = <<>>
    /\ sortedItems = <<>>
    /\ lines = <<>>
    /\ allPagesText = <<>>
    /\ extracted = <<>>
    /\ requests = <<>>
    /\ failure = "none"

numPages == Len(pdf)

\* await file.arrayBuffer(); await getDocument(...).promise; the loop begins
GetDocument ==
    /\ epc = "start"
    /\ epc' = "loop"
    /\ pageNo' = 1
    /\ allPagesText' = <<>>
    /\ UNCHANGED <<pdf, items, sortedItems, lines, extracted, requests, failure>>
    /\ UNCHANGED <<textVars, renderVars, appVars>>

\* a loop that asks for the next page along with the current one
GetPageAndNext ==
    /\ epc = "loop"
    /\ pageNo <= numPages
    /\ requests' = IF pageNo < numPages
                   THEN requests \o <<pageNo, pageNo + 1>>
                   ELSE Append(requests, pageNo)
    /\ items' = pdf[pageNo]
    /\ epc' = "page"
    /\ UNCHANGED <<pdf, pageNo, sortedItems, lines, allPagesText, extracted, failure>>
    /\ UNCHANGED <<textVars, renderVars, appVars>>

\* i <= pdf.numPages; await pdf.getPage(i); await page.getTextContent()
GetPage ==
    /\ epc = "loop"
    /\ pageNo <= numPages
    /\ requests' = Append(requests, pageNo)
    /\ items' = pdf[pageNo]
    /\ epc' = "page"
    /\ UNCHANGED <<pdf, pageNo, sortedItems, lines, allPagesText, extracted, failure>>
    /\ UNCHANGED <<textVars, renderVars, appVars>>

\* a loop body that leaves a page without runs out of allPagesText
ProcessPageSkippingBlank ==
    /\ epc = "page"
    /\ IF items = <<>>
       THEN UNCHANGED <<allPagesText, sortedItems, lines>>
       ELSE \E sorted \in SortResults(items) :
              /\ sortedItems' = sorted
              /\ lines' = AssembleLines(sorted)
              /\ allPagesText' =
                    Append(allPagesText, Join(MapClean(AssembleLines(sorted)), <<NL>>))
    /\ pageNo' = pageNo + 1
    /\ epc' = "loop"
    /\ UNCHANGED <<pdf, items, extracted, requests, failure>>
    /\ UNCHANGED <<textVars, renderVars, appVars>>

\* the rest of the loop body: blank page, or sort, line assembly, clean-up
\* and push; then i++
ProcessPage ==
    /\ epc = "page"
    /\ IF items = <<>>
       THEN /\ allPagesText' = Append(allPagesText, <<>>)
            /\ UNCHANGED <<sortedItems, lines>>
       ELSE \E sorted \in SortResults(items) :
              /\ sortedItems' = sorted
              /\ lines' = AssembleLines(sorted)
              /\ allPagesText' =
                    Append(allPagesText, Join(MapClean(AssembleLines(sorted)), <<NL>>))
    /\ pageNo' = pageNo + 1
    /\ epc' = "loop"
    /\ UNCHANGED <<pdf, items, extracted, requests, failure>>
    /\ UNCHANGED <<textVars, renderVars, appVars>>

\* the loop ends: return allPagesText.join('\n\n').trim()
ReturnText ==
    /\ epc = "loop"
    /\ pageNo > numPages
    /\ extracted' = <<Trim(Join(allPagesText, <<NL, NL>>))>>
    /\ epc' = "done"
    /\ UNCHANGED <<pdf, pageNo, items, sortedItems, lines, allPagesText, requests, failure>>
    /\ UNCHANGED <<textVars, renderVars, appVars>>

NextExtract == GetDocument \/ GetPage \/ ProcessPage \/ ReturnText

SpecExtract == InitExtract /\ [][NextExtract]_vars

(***************************************************************************)
(* The two callers of extractTextFromPdf: OpeningPage.handleFileUpload and *)
(* ResumeBuilder.handleFileUpload, with a decoder that may reject.         *)
(***************************************************************************)
\* the files the user uploads: documents of fewer than MaxPages pages
UploadDocs == UNION {[1..n -> PlainPages] : n \in 0..(MaxPages - 1)}

InitUpload ==
    /\ TextIdle
    /\ ExtractIdle
    /\ RenderIdle
    /\ DownloadIdle
    /\ view \in {"opening", "builder"}
    /\ upc = "idle"
    /\ uploads = 0
    /\ uiError = FALSE
    /\ isLoading = FALSE
    /\ resumeTextForAnalyzer = <<>>
    /\ resumeData = EmptyResume
    /\ GenerateIdle

\* handleFileUpload up to its first await: setIsLoading(true),
\* setError(null), and the call of extractTextFromPdf(file)
UploadFile ==
    /\ upc = "idle"
    /\ view \in {"opening", "builder"}
    /\ uploads < MaxUploads
    /\ uploads' = uploads + 1
    /\ isLoading' = TRUE
    /\ uiError' = FALSE
    /\ upc' = "extracting"
    /\ pdf' \in UploadDocs
    /\ epc' = "start"
    /\ pageNo' = 0
    /\ items' = <<>>
    /\ sortedItems' = <<>>
    /\ lines' = <<>>
    /\ allPagesText' = <<>>
    /\ extracted' = <<>>
    /\ requests' = <<>>
    /\ failure' = "none"
    /\ UNCHANGED <<view, resumeTextForAnalyzer, resumeData>>
    /\ UNCHANGED <<textVars, renderVars, downloadVars, generateVars>>

\* an extraction that answers a decoder failure with the text it has so far
DecoderFailsWithPartialText ==
    /\ epc = "loop"
    /\ pageNo <= numPages
    /\ failure' = "getPage"
    /\ requests' = Append(requests, pageNo)
    /\ extracted' = <<Trim(Join(allPagesText, <<NL, NL>>))>>
    /\ epc' = "done"
    /\ UNCHANGED <<pdf, pageNo, items, sortedItems, lines, allPagesText>>
    /\ UNCHANGED <<textVars, renderVars, appVars>>

\* an awaited decoder promise rejects: getDocument(...).promise,
\* pdf.getPage(i) or page.getTextContent(); nothing catches it in
\* extractTextFromPdf, whose own promise rejects
DecoderFails ==
    /\ \/ /\ epc = "start"
          /\ failure' = "getDocument"
          /\ UNCHANGED requests
       \/ /\ epc = "loop"
          /\ pageNo <= numPages
          /\ \E step \in {"getPage", "getTextContent"} : failure' = step
          /\ requests' = Append(requests, pageNo)
    /\ epc' = "rejected"
    /\ UNCHANGED <<pdf, pageNo, items, sortedItems, lines, allPagesText, extracted>>
    /\ UNCHANGED <<textVars, renderVars, appVars>>

\* OpeningPage: onNavigateToAnalyzer(text), which is handleNavigateToAnalyzer
OpeningNavigates ==
    /\ upc = "extracting"
    /\ view = "opening"
    /\ epc = "done"
    /\ resumeTextForAnalyzer' = extracted
    /\ view' = "analyzer"
    /\ upc' = "idle"
    /\ UNCHANGED <<uploads, uiError, isLoading, resumeData>>
    /\ UNCHANGED <<textVars, extractVars, renderVars, downloadVars, generateVars>>

\* ResumeBuilder: the text is there, extractDataFromResumeText(text) is awaited
BuilderImports ==
    /\ upc = "extracting"
    /\ view = "builder"
    /\ epc = "done"
    /\ upc' = "importing"
    /\ UNCHANGED <<view, uploads, uiError, isLoading, resumeTextForAnalyzer, resumeData>>
    /\ UNCHANGED <<textVars, extractVars, renderVars, downloadVars, generateVars>>

\* ResumeBuilder: setResumeData(data), then finally setIsLoading(false)
BuilderSetsData ==
    /\ upc = "importing"
    /\ resumeData' = [from |-> "import", text |-> extracted[1]]
    /\ isLoading' = FALSE
    /\ upc' = "idle"
    /\ UNCHANGED <<view, uploads, uiError, resumeTextForAnalyzer>>
    /\ UNCHANGED <<textVars, extractVars, renderVars, downloadVars, generateVars>>

\* catch (e): setError(...) and setIsLoading(false), in OpeningPage after a
\* rejected extraction, in ResumeBuilder also after a rejected import
UploadCatch ==
    /\ \/ upc = "extracting" /\ epc = "rejected"
       \/ upc = "importing"
    /\ uiError' = TRUE
    /\ isLoading' = FALSE
    /\ upc' = "idle"
    /\ UNCHANGED <<view, uploads, resumeTextForAnalyzer, resumeData>>
    /\ UNCHANGED <<textVars, extractVars, renderVars, downloadVars, generateVars>>

NextUpload ==
    \/ UploadFile
    \/ GetDocument \/ GetPage \/ ProcessPage \/ ReturnText
    \/ DecoderFails
    \/ OpeningNavigates \/ BuilderImports \/ BuilderSetsData \/ UploadCatch

SpecUpload == InitUpload /\ [][NextUpload]_vars

(***************************************************************************)
(* ResumeBuilder.handleGenerate with generateResumeTextStream and          *)
(* suggestKeywords; the text-completion service may fail at every call.    *)
(***************************************************************************)
\* what the service yields: chunks of text, and lists of keywords
Chunks == {<<"J", "o", "\n">>, <<"#", "#", " ", "S">>}
ChunkStreams == UNION {[1..n -> Chunks] : n \in 0..MaxChunks}
KeywordLists == {<<>>, <<"k1">>, <<"k1", "k2">>}

InitGenerate ==
    /\ TextIdle
    /\ ExtractIdle
    /\ RenderIdle
    /\ DownloadIdle
    /\ view = "builder"
    /\ upc = "idle"
    /\ uploads = 0
    /\ uiError = FALSE
    /\ isLoading = FALSE
    /\ resumeTextForAnalyzer = <<>>
    /\ resumeData = EmptyResume
    /\ hpc = "idle"
    /\ generations = 0
    /\ stream = <<>>
    /\ fullText = <<>>
    /\ generatedResumeText \in {<<>>, <<"o", "l", "d">>}
    /\ suggestedKeywords \in {<<>>, <<"k0">>}
    /\ serviceFailure = "none"
    /\ prior = NoPrior

\* handleGenerate up to the first await of the for await loop
StartGenerate ==
    /\ hpc = "idle"
    /\ generations < MaxGenerations
    /\ generations' = generations + 1
    /\ prior' = [text |-> generatedResumeText, keywords |-> suggestedKeywords]
    /\ isLoading' = TRUE
    /\ uiError' = FALSE
    /\ generatedResumeText' = <<>>
    /\ suggestedKeywords' = <<>>
    /\ fullText' = <<>>
    /\ stream' \in ChunkStreams
    /\ serviceFailure' = "none"
    /\ hpc' = "streaming"
    /\ UNCHANGED <<view, upc, uploads, resumeTextForAnalyzer, resumeData>>
    /\ UNCHANGED <<textVars, extractVars, renderVars, downloadVars>>

\* one round of for await (const chunk of stream)
StreamChunk ==
    /\ hpc = "streaming"
    /\ stream # <<>>
    /\ fullText' = fullText \o Head(stream)
    /\ generatedResumeText' = fullText \o Head(stream)
    /\ stream' = Tail(stream)
    /\ UNCHANGED <<hpc, generations, suggestedKeywords, serviceFailure, prior>>
    /\ UNCHANGED <<textVars, extractVars, renderVars, downloadVars, uploadVars>>

\* generateContentStream or the response stream rejects; the generator
\* rethrows, handleGenerate catches: setError, then finally
StreamFails ==
    /\ hpc = "streaming"
    /\ serviceFailure' = "stream"
    /\ uiError' = TRUE
    /\ isLoading' = FALSE
    /\ hpc' = "idle"
    /\ UNCHANGED <<generations, stream, fullText, generatedResumeText,
                   suggestedKeywords, prior>>
    /\ UNCHANGED <<view, upc, uploads, resumeTextForAnalyzer, resumeData>>
    /\ UNCHANGED <<textVars, extractVars, renderVars, downloadVars>>

\* the stream is exhausted: suggestKeywords(fullText, targetRole) is awaited
StreamEnds ==
    /\ hpc = "streaming"
    /\ stream = <<>>
    /\ hpc' = "keywords"
    /\ UNCHANGED <<generations, stream, fullText, generatedResumeText,
                   suggestedKeywords, serviceFailure, prior>>
    /\ UNCHANGED <<textVars, extractVars, renderVars, downloadVars, uploadVars>>

\* suggestKeywords resolves with result.keywords || []
KeywordsArrive ==
    /\ hpc = "keywords"
    /\ suggestedKeywords' \in KeywordLists
    /\ isLoading' = FALSE
    /\ hpc' = "idle"
    /\ UNCHANGED <<generations, stream, fullText, generatedResumeText,
                   serviceFailure, prior>>
    /\ UNCHANGED <<view, upc, uploads, uiError, resumeTextForAnalyzer, resumeData>>
    /\ UNCHANGED <<textVars, extractVars, renderVars, downloadVars>>

\* generateContent rejects inside suggestKeywords, whose catch returns []
KeywordsFail ==
    /\ hpc = "keywords"
    /\ serviceFailure' = "keywords"
    /\ suggestedKeywords' = <<>>
    /\ isLoading' = FALSE
    /\ hpc' = "idle"
    /\ UNCHANGED <<generations, stream, fullText, generatedResumeText, prior>>
    /\ UNCHANGED <<view, upc, uploads, uiError, resumeTextForAnalyzer, resumeData>>
    /\ UNCHANGED <<textVars, extractVars, renderVars, downloadVars>>

NextGenerate ==
    StartGenerate \/ StreamChunk \/ StreamFails \/ StreamEnds
    \/ KeywordsArrive \/ KeywordsFail

SpecGenerate == InitGenerate /\ [][NextGenerate]_vars

(***************************************************************************)
(* generatePdfResume as a process.  The call is synchronous: from Generate *)
(* to Save or Catch no other call can begin.                               *)
(***************************************************************************)
BodyKinds == {"empty", "para", "list", "wide", "tail"}

\* n words "W" separated by spaces; with last = "a" the last word is short
RECURSIVE WideWords(_, _)
WideWords(n, last) ==
    IF n = 0 THEN <<>>
    ELSE IF n = 1 THEN <<last>>
    ELSE <<"W", " ">> \o WideWords(n - 1, last)

\* the body of a section: its words begin with the first letter of the key
BodyText(key, b) ==
    CASE b.kind = "para" -> <<key[1], "x", " ", key[1], "y">>
      [] b.kind = "list" -> <<"*", " ", key[1], "i", "\n", "*", " ", key[1], "j">>
      [] b.kind = "wide" -> WideWords(b.n, "W")
      [] b.kind = "tail" -> WideWords(b.n, "a")
      [] OTHER -> <<>>

\* the heading line of a section: "## Skills", or "## SKILLS " when shouted
HeadingLine(sec) ==
    <<"#", "#", " ">>
    \o (IF sec.style = "shout" THEN ToUpperCase(sec.title) \o <<SP>>
        ELSE Capitalize(sec.title))

RECURSIVE SectionLines(_)
SectionLines(secs) ==
    IF secs = <<>> THEN <<>>
    ELSE LET sec == Head(secs)
             text == BodyText(sec.title, sec.body)
         IN  <<HeadingLine(sec)>>
             \o (IF text = <<>> THEN <<>> ELSE <<text>>)
             \o SectionLines(Tail(secs))

\* the Markdown text of a document: hdr header lines, then the sections
BuildMarkdown(d) ==
    IF d.hdr = 0 THEN <<>>
    ELSE IF d.hdr = 1 THEN <<"J", "o">>
    ELSE Join(<<(<<"J", "o">>), (<<"j", "@", "x">>)>> \o SectionLines(d.secs), <<NL>>)

Body(kind, n) == [kind |-> kind, n |-> n]

Section(key, b) == [title |-> key, body |-> b, style |-> "plain"]

SectionChoices ==
    {Section(k, Body(b, 0)) :
        k \in {SkillsKey, ExperienceKey, ProjectsKey, ReferencesKey},
        b \in {"empty", "para"}}
    \cup {Section(SkillsKey, Body("list", 0)),
          [title |-> SkillsKey, body |-> Body("para", 0), style |-> "shout"]}

\* the documents: short ones, ones of up to MaxSections sections, and ones
\* with a single long section
RenderDocs ==
    {[hdr |-> h, secs |-> <<>>] : h \in 0..1}
    \cup {[hdr |-> 2, secs |-> ss] :
             ss \in UNION {[1..n -> SectionChoices] : n \in 0..MaxSections}}
    \cup {[hdr |-> 2, secs |-> <<Section(SkillsKey, Body(k, n))>>] :
             k \in {"wide", "tail"}, n \in 1..MaxWords}

\* the documents of the runs with several calls
CallDocs ==
    {[hdr |-> 1, secs |-> <<>>],
     [hdr |-> 2, secs |-> <<Section(SkillsKey, Body("para", 0))>>],
     [hdr |-> 2, secs |-> <<Section(SkillsKey, Body("list", 0)),
                            Section(ReferencesKey, Body("para", 0))>>],
     [hdr |-> 2, secs |-> <<Section(SkillsKey, Body("wide", MaxWords))>>]}

Inputs ==
    IF family = "calls"
    THEN [doc : CallDocs, templateId : {"classic", "modern"}]
    ELSE [doc : RenderDocs, templateId : TemplateIds]

CallLimit == IF family = "calls" THEN MaxCalls ELSE 1

InitRenderWith(f) ==
    /\ TextIdle
    /\ ExtractIdle
    /\ AppIdle
    /\ family = f
    /\ calls = 0
    /\ docSpec = NoDoc
    /\ resumeText = <<>>
    /\ templateId = "classic"
    /\ gpc = "idle"
    /\ sanitizedResumeText = <<>>
    /\ parsedData = NoData
    /\ renderer = NoRenderer
    /\ sectionIdx = 0
    /\ outcome = "none"
    /\ saved = 0
    /\ alerts = 0
    /\ firstResult = <<>>

InitRender == InitRenderWith("render")
InitCalls == InitRenderWith("calls")

\* the call begins: sanitization pass, new jsPDF, parseResumeStructure
Generate ==
    /\ gpc = "idle"
    /\ calls < CallLimit
    /\ \E in \in Inputs :
          /\ docSpec' = in.doc
          /\ resumeText' = BuildMarkdown(in.doc)
          /\ templateId' = in.templateId
          /\ sanitizedResumeText' = Sanitize(BuildMarkdown(in.doc))
          /\ parsedData' = parseResumeStructure(Sanitize(BuildMarkdown(in.doc)))
    /\ calls' = calls + 1
    /\ gpc' = "template"
    /\ UNCHANGED <<family, renderer, sectionIdx, outcome, saved, alerts, firstResult>>
    /\ UNCHANGED <<textVars, extractVars, appVars>>

\* switch (templateId): new PdfRenderer(doc) and the header of the template
RenderHeaderStep ==
    /\ gpc = "template"
    /\ LET r == RenderTemplateHeader(templateId,
                    NewRenderer(renderer.cursorY, renderer.pageNumber), parsedData)
       IN  /\ renderer' = r
           /\ gpc' = IF r.threw THEN "catch" ELSE "sections"
    /\ sectionIdx' = 1
    /\ UNCHANGED <<family, calls, docSpec, resumeText, templateId,
                   sanitizedResumeText, parsedData, outcome, saved, alerts, firstResult>>
    /\ UNCHANGED <<textVars, extractVars, appVars>>

\* one round of sectionOrder.forEach
RenderSectionStep ==
    /\ gpc = "sections"
    /\ sectionIdx <= Len(sectionOrder(templateId))
    /\ renderer' = RenderTemplateSection(templateId, renderer, parsedData,
                                         sectionOrder(templateId)[sectionIdx])
    /\ sectionIdx' = sectionIdx + 1
    /\ UNCHANGED <<family, calls, docSpec, resumeText, templateId, gpc,
                   sanitizedResumeText, parsedData, outcome, saved, alerts, firstResult>>
    /\ UNCHANGED <<textVars, extractVars, appVars>>

Result(how) ==
    [resumeText |-> resumeText, templateId |-> templateId, outcome |-> how,
     pages |-> renderer.pages, draws |-> renderer.draws]

\* doc.save(filename)
Save ==
    /\ gpc = "sections"
    /\ sectionIdx > Len(sectionOrder(templateId))
    /\ saved' = saved + 1
    /\ outcome' = "saved"
    /\ firstResult' = IF firstResult = <<>> THEN <<Result("saved")>> ELSE firstResult
    /\ gpc' = "idle"
    /\ UNCHANGED <<family, calls, docSpec, resumeText, templateId,
                   sanitizedResumeText, parsedData, renderer, sectionIdx, alerts>>
    /\ UNCHANGED <<textVars, extractVars, appVars>>

\* a catch block that still saves what has been drawn
CatchAndSave ==
    /\ gpc = "catch"
    /\ alerts' = alerts + 1
    /\ saved' = saved + 1
    /\ outcome' = "alert"
    /\ firstResult' = IF firstResult = <<>> THEN <<Result("alert")>> ELSE firstResult
    /\ gpc' = "idle"
    /\ UNCHANGED <<family, calls, docSpec, resumeText, templateId,
                   sanitizedResumeText, parsedData, renderer, sectionIdx>>
    /\ UNCHANGED <<textVars, extractVars, appVars>>

\* catch (error): console.error and alert
Catch ==
    /\ gpc = "catch"
    /\ alerts' = alerts + 1
    /\ outcome' = "alert"
    /\ firstResult' = IF firstResult = <<>> THEN <<Result("alert")>> ELSE firstResult
    /\ gpc' = "idle"
    /\ UNCHANGED <<family, calls, docSpec, resumeText, templateId,
                   sanitizedResumeText, parsedData, renderer, sectionIdx, saved>>
    /\ UNCHANGED <<textVars, extractVars, appVars>>

NextRender == Generate \/ RenderHeaderStep \/ RenderSectionStep \/ Save \/ Catch

SpecRender == InitRender /\ [][NextRender]_vars

SpecCalls == InitCalls /\ [][NextRender]_vars

(***************************************************************************)
(* ResumePreview: the download dialog.  handleDownload runs the whole of   *)
(* generatePdfResume before it returns.                                    *)
(***************************************************************************)
\* String.prototype.endsWith
EndsWith(s, suffix) ==
    Len(s) >= Len(suffix) /\ SubSeq(s, Len(s) - Len(suffix) + 1, Len(s)) = suffix

DotPdf == <<".", "p", "d", "f">>

\* filename.toLowerCase().endsWith('.pdf') ? filename : `${filename}.pdf`
FinalFilenameAlways(name) == name \o DotPdf

FinalFilename(name) ==
    IF EndsWith(ToLowerCase(name), DotPdf) THEN name ELSE name \o DotPdf

\* headerInfo.name of parseMarkdownForPreview: lines[0] || ''
PreviewName(markdown) == IF markdown = <<>> THEN <<>> ELSE Split(markdown, NL)[1]

\* name.trim().replace(/\s+/g, '-')
Dashed(name) == Join(NonEmpty(Split(CollapseWs(Trim(name)), SP)), <<"-">>)

\* openModal: the suggested filename
SuggestedName(markdown) ==
    IF PreviewName(markdown) # <<>>
    THEN Dashed(PreviewName(markdown)) \o <<"-", "R", "e", "s", "u", "m", "e">>
    ELSE DefaultFilename

\* what the user can type into the filename input
FilenameStems == StringsUpTo({"a", " "}, MaxStem)
FilenameEndings ==
    {<<>>, DotPdf, <<".", "P", "D", "F">>, <<".", "P", "d", "f">>, <<".", "p", "d">>,
     <<"p", "d", "f">>, <<".", "p", "d", "f", " ">>, <<".", "t", "x", "t">>}
Filenames == {stem \o ending : stem \in FilenameStems, ending \in FilenameEndings}

InitDownload ==
    /\ TextIdle
    /\ ExtractIdle
    /\ family = "download"
    /\ calls = 0
    /\ \E d \in CallDocs :
          /\ docSpec = d
          /\ resumeText = BuildMarkdown(d)
    /\ templateId \in {"classic", "modern"}
    /\ gpc = "idle"
    /\ sanitizedResumeText = <<>>
    /\ parsedData = NoData
    /\ renderer = NoRenderer
    /\ sectionIdx = 0
    /\ outcome = "none"
    /\ saved = 0
    /\ alerts = 0
    /\ firstResult = <<>>
    /\ filename = DefaultFilename
    /\ isModalOpen = FALSE
    /\ downloadTemplate = templateId
    /\ savedAs = <<>>
    /\ callerSaw = "none"
    /\ UploadIdle
    /\ GenerateIdle

\* the Download button: disabled={isStreaming || !resumeText}
openModal ==
    /\ ~isModalOpen
    /\ resumeText # <<>>
    /\ calls < CallLimit
    /\ filename' = SuggestedName(resumeText)
    /\ isModalOpen' = TRUE
    /\ UNCHANGED <<downloadTemplate, savedAs, callerSaw>>
    /\ UNCHANGED <<textVars, extractVars, renderVars, uploadVars, generateVars>>

\* onChange of the filename input
ChangeFilename ==
    /\ isModalOpen
    /\ \E name \in Filenames : filename' = name
    /\ UNCHANGED <<isModalOpen, downloadTemplate, savedAs, callerSaw>>
    /\ UNCHANGED <<textVars, extractVars, renderVars, uploadVars, generateVars>>

\* a template button of the dialog
ChooseDownloadTemplate ==
    /\ isModalOpen
    /\ \E t \in {"classic", "modern"} : downloadTemplate' = t
    /\ UNCHANGED <<filename, isModalOpen, savedAs, callerSaw>>
    /\ UNCHANGED <<textVars, extractVars, renderVars, uploadVars, generateVars>>

\* Escape, the close button or Cancel
CloseModal ==
    /\ isModalOpen
    /\ isModalOpen' = FALSE
    /\ UNCHANGED <<filename, downloadTemplate, savedAs, callerSaw>>
    /\ UNCHANGED <<textVars, extractVars, renderVars, uploadVars, generateVars>>

\* generatePdfResume returns normally from the try block and from the catch
\* block alike
CompletionSeenByCaller(r) == IF r.threw THEN "returned" ELSE "returned"

\* Confirm & Download: handleDownload with the whole generatePdfResume call
handleDownload ==
    /\ isModalOpen
    /\ calls < CallLimit
    /\ IF Trim(filename) = <<>>
       THEN UNCHANGED <<renderVars, downloadVars>>
       ELSE LET data == parseResumeStructure(Sanitize(resumeText))
                r == RenderTemplate(downloadTemplate, data)
            IN  /\ templateId' = downloadTemplate
                /\ sanitizedResumeText' = Sanitize(resumeText)
                /\ parsedData' = data
                /\ renderer' = r
                /\ sectionIdx' = IF r.threw THEN 1 ELSE Len(sectionOrder(downloadTemplate)) + 1
                /\ calls' = calls + 1
                /\ IF r.threw
                   THEN /\ alerts' = alerts + 1
                        /\ outcome' = "alert"
                        /\ UNCHANGED <<saved, savedAs>>
                   ELSE /\ saved' = saved + 1
                        /\ outcome' = "saved"
                        /\ savedAs' = Append(savedAs, FinalFilename(filename))
                        /\ UNCHANGED alerts
                /\ callerSaw' = CompletionSeenByCaller(r)
                /\ isModalOpen' = FALSE
                /\ UNCHANGED <<family, docSpec, resumeText, gpc, firstResult>>
                /\ UNCHANGED <<filename, downloadTemplate>>
    /\ UNCHANGED <<textVars, extractVars, uploadVars, generateVars>>

NextDownload ==
    openModal \/ ChangeFilename \/ ChooseDownloadTemplate \/ CloseModal \/ handleDownload

SpecDownload == InitDownload /\ [][NextDownload]_vars

(***************************************************************************)
(* Properties of the text functions.                                       *)
(***************************************************************************)
ParsedSections == parsed[1].sections

StartsWith(s, pre) == Len(s) >= Len(pre) /\ SubSeq(s, 1, Len(pre)) = pre

\* B has a line that starts with "## "
HasHeadingLine(b) ==
    \E i \in 1..Len(Split(b, NL)) : StartsWith(Split(b, NL)[i], <<"#", "#", " ">>)

\* B has a line that starts with "##" followed by white space or by the end
\* of the line
HasHeadingLikeLine(b) ==
    \E i \in 1..Len(Split(b, NL)) :
        LET line == Split(b, NL)[i] IN
        /\ StartsWith(line, <<"#", "#">>)
        /\ Len(line) = 2 \/ IsWs(line[3])

C4_SanitizeIdempotent ==
    Len(passes) = 2 => passes[2] = passes[1]

\* two passes over a text with two bullet lines, which the first pass rewrote
C4_Witness ==
    /\ Len(passes) = 2
    /\ body = <<"*", "\n", "*", " ">>
    /\ passes[1] = <<"-", " ", "-", " ">>
    /\ passes[2] = passes[1]

\* a bullet line: optional white space within the line, "*", a space
IsBulletLine(line) ==
    LET j == SkipWs(line, 1) IN
    j + 1 <= Len(line) /\ line[j] = "*" /\ line[j + 1] = " "

\* the line with its "*" marker replaced by "-"
WithDashMarker(line) ==
    LET j == SkipWs(line, 1) IN
    [i \in 1..Len(line) |-> IF i = j THEN "-" ELSE line[i]]

\* C5 as stated: the pass rewrites line by line; a bullet line gets "-" for
\* its "*" marker (with or without its indentation), every other line is
\* left as it is, and the number of lines is preserved.
C5_SanitizeLineWise ==
    Len(passes) >= 1 =>
        LET before == Split(body, NL)
            after  == Split(passes[1], NL)
        IN  /\ Len(after) = Len(before)
            /\ \A i \in 1..Len(before) :
                  IF IsBulletLine(before[i])
                  THEN after[i] \in {WithDashMarker(before[i]),
                                     TrimStart(WithDashMarker(before[i]))}
                  ELSE after[i] = before[i]

(***************************************************************************)
(* Properties of the line assembly.                                        *)
(***************************************************************************)
\* the one page of the document has been processed
PageDone == numPages = 1 /\ pageNo = 2 /\ items # <<>>

\* the baselines of all runs lie within 4 units of each other
SharedBaseline(runs) ==
    \A j, k \in 1..Len(runs) : Abs(runs[j].y - runs[k].y) <= 4

AscendingX(runs) ==
    \A j, k \in 1..Len(runs) : j < k => runs[j].x <= runs[k].x

\* every run of the sorted page is kept on the line of the run before it
OneVisualLine(runs) ==
    \A j \in 2..Len(runs) : ~StartsNewLine(runs[j], runs[j - 1].y)

Max(a, b) == IF a > b THEN a ELSE b

\* the separator before the later run: one space when
\* gap > 0.25 * width / max(1, length), nothing otherwise
Separator(earlier, later) ==
    IF 4 * (later.x - (earlier.x + earlier.width)) * Max(1, Len(later.str)) > later.width
    THEN <<SP>>
    ELSE <<>>

\* the strings of the runs in their order, separated by the rule above
RECURSIVE SpacedConcat(_, _)
SpacedConcat(runs, j) ==
    IF j > Len(runs) THEN <<>>
    ELSE (IF j = 1 THEN <<>> ELSE Separator(runs[j - 1], runs[j]))
         \o runs[j].str \o SpacedConcat(runs, j + 1)

WithinLineHeight(runs) ==
    \A j, k \in 1..Len(runs) : 10 * Abs(runs[j].y - runs[k].y) <= 7 * runs[k].height

\* the runs of equal x keep the order they have in the input array
TiesInInputOrder(runs, input) ==
    \A j, k \in 1..Len(runs) :
        (j < k /\ runs[j].x = runs[k].x) =>
            \E m, n \in 1..Len(input) : m < n /\ input[m] = runs[j] /\ input[n] = runs[k]

C18_HigherRunComesFirst ==
    PageDone
        => \A j, k \in 1..Len(sortedItems) :
              sortedItems[j].y - sortedItems[k].y > 4 => j < k

\* the runs of page i in the order the sort left them: a page of one run is
\* its own sorted order, and sortedItems holds the order of the last page
\* that was sorted
SortedRunsOf(i) == IF Len(pdf[i]) <= 1 THEN pdf[i] ELSE sortedItems

\* the text page i contributes: '' for a page without runs, else its cleaned
\* lines joined by "\n"
SegmentOf(i) ==
    IF pdf[i] = <<>> THEN <<>>
    ELSE Join(MapClean(AssembleLines(SortedRunsOf(i))), <<NL>>)

\* C19: the extracted text is the trimmed join, with a blank line between
\* pages, of one segment per page in page order 1..numPages; a page without
\* runs contributes the empty string and is not left out, so n pages give
\* n segments and every page's text keeps its place among the others.
C19_OneSegmentPerPage ==
    epc = "done"
        => /\ Len(allPagesText) = numPages
           /\ \A i \in 1..numPages :
                /\ Len(pdf[i]) > 1 => i = numPages
                /\ allPagesText[i] = SegmentOf(i)
           /\ extracted = <<Trim(Join(allPagesText, <<NL, NL>>))>>

\* three pages, the second without runs: "a", two blank lines, "b"
C19_Witness ==
    /\ epc = "done"
    /\ numPages = 3
    /\ pdf[1] # <<>> /\ pdf[2] = <<>> /\ pdf[3] # <<>>
    /\ allPagesText = << <<"a">>, <<>>, <<"b">> >>
    /\ extracted = << <<"a", NL, NL, NL, NL, "b">> >>

\* the pages asked for and not yet appended to allPagesText
InProgress == Len(requests) - Len(allPagesText)

\* C20: within one extraction the pages are processed strictly one after
\* the other: pages are requested in the order 1, 2, ..., page N+1 is
\* requested only when the text of page N has been assembled and appended,
\* and at no time are two pages of the document in progress.
C20_PagesStrictlySequential ==
    /\ [](/\ InProgress \in {0, 1}
          /\ \A i \in 1..Len(requests) : requests[i] = i
          /\ (epc = "page") <=> (InProgress = 1))
    /\ [][requests' # requests
            => /\ Len(allPagesText) = Len(requests)
               /\ requests' = Append(requests, Len(requests) + 1)]_vars

\* page 2 has been requested, page 1 is appended, page 3 is still to come
C20_Witness ==
    /\ numPages = 3
    /\ epc = "page"
    /\ requests = <<1, 2>>
    /\ Len(allPagesText) = 1
    /\ pdf[1] # <<>>
    /\ allPagesText[1] = pdf[1][1].str

\* the baseline of run j is more than 0.7 * its height away from that of
\* the run before it
Breaks(runs, j) == 10 * Abs(runs[j].y - runs[j - 1].y) > 7 * runs[j].height

\* the number of the output line that run j belongs to
LineOf(runs, j) == 1 + Cardinality({k \in 2..j : Breaks(runs, k)})

\* the strings of the runs of output line i from run j on, with the space
\* rule between the runs of the line
RECURSIVE LineText(_, _, _)
LineText(runs, i, j) ==
    IF j > Len(runs) THEN <<>>
    ELSE IF LineOf(runs, j) # i THEN LineText(runs, i, j + 1)
    ELSE (IF j = 1 \/ Breaks(runs, j) THEN <<>> ELSE Separator(runs[j - 1], runs[j]))
         \o runs[j].str \o LineText(runs, i, j + 1)

C2_SpaceThreshold ==
    (PageDone /\ OneVisualLine(sortedItems))
        => lines = <<SpacedConcat(sortedItems, 1)>>

\* a line of three runs: the gap before the second is exactly a quarter of
\* its character width, the gap before the third is larger
C2_Witness ==
    /\ PageDone
    /\ Len(sortedItems) = 3
    /\ OneVisualLine(sortedItems)
    /\ Len(sortedItems[2].str) = 1
    /\ 4 * (sortedItems[2].x - (sortedItems[1].x + sortedItems[1].width))
         = sortedItems[2].width
    /\ Len(sortedItems[3].str) = 1
    /\ 4 * (sortedItems[3].x - (sortedItems[2].x + sortedItems[2].width))
         > sortedItems[3].width
    /\ lines = <<sortedItems[1].str \o sortedItems[2].str \o <<SP>> \o sortedItems[3].str>>

(***************************************************************************)
(* Properties of generatePdfResume.                                        *)
(***************************************************************************)
\* a call of generatePdfResume has ended and no other has begun
CallDone == gpc = "idle" /\ calls >= 1

\* the draw commands of one kind, in the order they were issued
DrawsOfKind(draws, kind) == SelectSeq(draws, LAMBDA d : d.kind = kind)

\* per word: its text and its (x, y, page)
WordDraws(draws) ==
    LET W == DrawsOfKind(draws, "word") IN
    [k \in 1..Len(W) |-> <<W[k].text, W[k].x, W[k].y, W[k].page>>]

Range(seq) == {seq[k] : k \in 1..Len(seq)}

\* C6: two calls with the same Markdown and the same templateId, whatever
\* calls lie between them, produce the same number of pages and the same
\* sequence of draw commands (per word: text, x, y, page), and every call
\* starts drawing at cursorY = top margin on page 1.
C6_SameInputSameOutput ==
    /\ (CallDone /\ calls >= 2
         /\ resumeText = firstResult[1].resumeText
         /\ templateId = firstResult[1].templateId)
        => /\ renderer.pages = firstResult[1].pages
           /\ WordDraws(renderer.draws) = WordDraws(firstResult[1].draws)
           /\ renderer.draws = firstResult[1].draws
           /\ outcome = firstResult[1].outcome
    /\ (calls >= 1 /\ gpc # "template")
        => /\ renderer.draws # <<>>
           /\ renderer.draws[1].y = PAGE_MARGIN
           /\ renderer.draws[1].page = 1

\* the third call repeats the input of the first, a document of two pages,
\* after a call in between
C6_Witness ==
    /\ CallDone /\ calls = 3
    /\ resumeText = firstResult[1].resumeText
    /\ templateId = firstResult[1].templateId
    /\ outcome = "saved" /\ saved >= 2
    /\ renderer.pages = 2
    /\ Len(WordDraws(renderer.draws)) > 1

\* the sections of the document whose key the template lists
ListedSections(d, tid) ==
    [d EXCEPT !.secs = SelectSeq(d.secs, LAMBDA sec : sec.title \in Range(sectionOrder(tid)))]

\* the texts a section can be drawn as: its title, and the words of its body
TextsOfSection(sec) ==
    {Capitalize(sec.title), ToUpperCase(sec.title)}
    \cup {w \o <<SP>> : w \in Range(NonEmpty(Split(BodyText(sec.title, sec.body), SP)))}

\* C7: for each template, a section whose key is not in the template's
\* sectionOrder causes no draw command: neither its title nor a word of its
\* body is drawn, and the draw sequence is that of the same document
\* without the section.
C7_UnlistedSectionNotDrawn ==
    (CallDone /\ docSpec.hdr = 2)
        => /\ \A k \in 1..Len(docSpec.secs) :
                docSpec.secs[k].title \notin Range(sectionOrder(templateId))
                    => \A j \in 1..Len(renderer.draws) :
                          renderer.draws[j].text \notin TextsOfSection(docSpec.secs[k])
           /\ renderer.draws =
                RenderTemplate(templateId,
                    parseResumeStructure(Sanitize(BuildMarkdown(
                        ListedSections(docSpec, templateId))))).draws
           /\ renderer.pages =
                RenderTemplate(templateId,
                    parseResumeStructure(Sanitize(BuildMarkdown(
                        ListedSections(docSpec, templateId))))).pages

\* a References section with a body, ahead of a Skills section that is drawn
C7_Witness ==
    /\ CallDone /\ outcome = "saved"
    /\ Len(docSpec.secs) = 2
    /\ docSpec.secs[1].title = ReferencesKey /\ docSpec.secs[1].body.kind = "para"
    /\ docSpec.secs[2].title = SkillsKey /\ docSpec.secs[2].body.kind = "para"
    /\ ReferencesKey \in DOMAIN parsedData.sections
    /\ parsedData.sections[ReferencesKey] # <<>>
    /\ Len(DrawsOfKind(renderer.draws, "title")) = 1
    /\ Len(DrawsOfKind(renderer.draws, "word")) = 2

\* the body the section map holds for a section that is not overwritten:
\* its lines, with "- " for the "* " of its bullets
StoredBody(sec) ==
    IF sec.body.kind = "list"
    THEN <<"-", " ", sec.title[1], "i", "\n", "-", " ", sec.title[1], "j">>
    ELSE BodyText(sec.title, sec.body)

\* C17: when several headings of the Markdown yield the same key (the same
\* title after trimming and lowercasing), the section map holds one entry
\* for that key, and its body is that of the last such section in source
\* order.
C17_LastDuplicateWins ==
    (calls >= 1 /\ docSpec.hdr = 2)
        => /\ DOMAIN parsedData.sections = {docSpec.secs[k].title : k \in 1..Len(docSpec.secs)}
           /\ \A k \in 1..Len(docSpec.secs) :
                (\A j \in (k + 1)..Len(docSpec.secs) :
                    docSpec.secs[j].title # docSpec.secs[k].title)
                => parsedData.sections[docSpec.secs[k].title] = StoredBody(docSpec.secs[k])

\* "## Skills" with a list, then "## SKILLS " with a paragraph: one entry
\* under the key skills, holding the paragraph
C17_Witness ==
    /\ calls = 1
    /\ Len(docSpec.secs) = 2
    /\ docSpec.secs[1] = Section(SkillsKey, Body("list", 0))
    /\ docSpec.secs[2].title = SkillsKey /\ docSpec.secs[2].style = "shout"
    /\ DOMAIN parsedData.sections = {SkillsKey}
    /\ parsedData.sections[SkillsKey] = <<"s", "x", " ", "s", "y">>

\* the keys of the section titles drawn, in the order they were drawn
TitleKeys(draws) ==
    LET T == DrawsOfKind(draws, "title") IN
    [k \in 1..Len(T) |-> ToLowerCase(T[k].text)]

\* the name, then the contact line, then everything else
HeaderComesFirst(draws) ==
    /\ Len(draws) >= 2
    /\ draws[1].kind = "name"
    /\ draws[2].kind = "contact"
    /\ \A k \in 3..Len(draws) : draws[k].kind \notin {"name", "contact"}

C9_ShortInputHeader ==
    (calls >= 1 /\ Len(Split(resumeText, NL)) < 2)
        => /\ HeaderAt(parsedData, 0) = Split(resumeText, NL)[1]
           /\ HeaderAt(parsedData, 1) = <<>>
           /\ ~renderer.threw
           /\ alerts = 0

\* the words of the bodies drawn, section by section in template order
RECURSIVE SourceWords(_, _, _)
SourceWords(data, order, k) ==
    IF k > Len(order) THEN <<>>
    ELSE (IF order[k] \in DOMAIN data.sections
          THEN SelectSeq(NonEmpty(Split(Join(Split(data.sections[order[k]], NL), <<SP>>),
                                        SP)),
                         LAMBDA w : w # <<"-">>)
          ELSE <<>>)
         \o SourceWords(data, order, k + 1)

\* a word was laid out below the content height of the page it is on
BodyOverflows(draws) ==
    \E k \in 1..Len(draws) :
        draws[k].kind = "word" /\ draws[k].y > PAGE_HEIGHT - PAGE_MARGIN

\* C10: when the lines of a body exceed the content height of one page, a
\* new page is started, every word of the body is drawn exactly once and in
\* source order, no word lies below the content height, and the first word
\* after a break is drawn on the new page at the top margin.
C10_OverflowContinuesOnNewPage ==
    LET W == DrawsOfKind(renderer.draws, "word") IN
    (CallDone /\ outcome = "saved" /\ (BodyOverflows(renderer.draws) \/ renderer.pages > 1))
        => /\ renderer.pages >= 2
           /\ [k \in 1..Len(W) |-> W[k].text] =
                [k \in 1..Len(SourceWords(parsedData, sectionOrder(templateId), 1)) |->
                    SourceWords(parsedData, sectionOrder(templateId), 1)[k] \o <<SP>>]
           /\ \A k \in 2..Len(W) :
                W[k].page > W[k - 1].page => W[k].y = PAGE_MARGIN

(***************************************************************************)
(* The operations of a PdfRenderer, applied in any order to a renderer on  *)
(* a new document: gpc names the operation applied last.                   *)
(***************************************************************************)
\* the amounts the templates and renderMarkdown add to cursorY
CursorSteps == {-1, 1, 2, 3, 4, 5, 8, 10, 12}

InitLayout ==
    /\ TextIdle
    /\ ExtractIdle
    /\ AppIdle
    /\ family = "layout"
    /\ calls = 0
    /\ docSpec = NoDoc
    /\ resumeText = <<>>
    /\ templateId = "classic"
    /\ gpc = "new"
    /\ sanitizedResumeText = <<>>
    /\ parsedData = NoData
    /\ renderer = NewRenderer(0, 0)
    /\ sectionIdx = 0
    /\ outcome = "none"
    /\ saved = 0
    /\ alerts = 0
    /\ firstResult = <<>>

\* this._ensurePage(), before anything is drawn
EnsurePageCall ==
    /\ family = "layout"
    /\ renderer.draws = <<>>
    /\ renderer.pages <= MaxLayoutPages
    /\ renderer' = ensurePage(renderer)
    /\ gpc' = "ensurePage"
    /\ UNCHANGED <<family, calls, docSpec, resumeText, templateId, sanitizedResumeText,
                   parsedData, sectionIdx, outcome, saved, alerts, firstResult>>
    /\ UNCHANGED <<textVars, extractVars, appVars>>

\* renderer.cursorY += dy before anything is drawn, as long as the cursor
\* stays on the sheet
AdvanceCursor ==
    /\ family = "layout"
    /\ renderer.draws = <<>>
    /\ \E dy \in CursorSteps :
          /\ renderer.cursorY + dy >= 0
          /\ renderer.cursorY + dy <= PAGE_HEIGHT
          /\ renderer' = Advance(renderer, dy)
    /\ gpc' = "advance"
    /\ UNCHANGED <<family, calls, docSpec, resumeText, templateId, sanitizedResumeText,
                   parsedData, sectionIdx, outcome, saved, alerts, firstResult>>
    /\ UNCHANGED <<textVars, extractVars, appVars>>

\* n times the letter a
RECURSIVE Letters(_)
Letters(n) == IF n = 0 THEN <<>> ELSE <<"a">> \o Letters(n - 1)

\* words of 4, 70, 72, 100 and 198 mm with their trailing space
InlineWords == {<<"a">>, Letters(34), Letters(35), <<"W">>, <<"W", "W">>}
InlineRuns == StringsUpTo(InlineWords, MaxInlineWords)

\* x and maxWidth of a paragraph and of the text of a top-level list item
InlineGeometry ==
    {[x |-> PAGE_MARGIN, maxWidth |-> CONTENT_WIDTH],
     [x |-> PAGE_MARGIN + 5 + 4, maxWidth |-> CONTENT_WIDTH - 5 - 4]}

\* the cursorY a run starts at: the top of a page, one line above the
\* content height and the content height itself
InlineStarts == {PAGE_MARGIN, PAGE_HEIGHT - PAGE_MARGIN - PAGE_LINE_HEIGHT,
                 PAGE_HEIGHT - PAGE_MARGIN}

\* this._renderInlineTokens(tokens, x, this.cursorY, maxWidth) right after
\* the check at the top of renderTokens; docSpec keeps the arguments
RenderInlineCall ==
    /\ family = "layout"
    /\ gpc = "ensurePage"
    /\ renderer.draws = <<>>
    /\ renderer.cursorY \in InlineStarts
    /\ \E ws \in InlineRuns, g \in InlineGeometry :
          /\ docSpec' = [words |-> ws, x |-> g.x, maxWidth |-> g.maxWidth,
                         y |-> renderer.cursorY]
          /\ renderer' = renderInlineTokens(renderer,
                              <<Token("text", Join(ws, <<SP>>), <<>>)>>,
                              g.x, renderer.cursorY, g.maxWidth)
    /\ gpc' = "inline"
    /\ UNCHANGED <<family, calls, resumeText, templateId, sanitizedResumeText,
                   parsedData, sectionIdx, outcome, saved, alerts, firstResult>>
    /\ UNCHANGED <<textVars, extractVars, appVars>>

\* the list_item token marked yields for a tight item "- w" with the items
\* of the list nested under it: its text, then the nested list
ItemToken(w, nested) ==
    Token("list_item", <<w>>,
          <<Token("text", <<w>>, <<>>)>>
          \o (IF nested = <<>> THEN <<>> ELSE <<Token("list", <<>>, nested)>>))

\* the tokens of "- a\n- b", of "- a\n  - b" and of "- a\n  - b\n- c", each
\* with its items in source order and their nesting depth
ListInputs ==
    {[tokens |-> <<Token("list", <<>>, <<ItemToken("a", <<>>), ItemToken("b", <<>>)>>)>>,
      items  |-> <<[word |-> "a", level |-> 1], [word |-> "b", level |-> 1]>>],
     [tokens |-> <<Token("list", <<>>, <<ItemToken("a", <<ItemToken("b", <<>>)>>)>>)>>,
      items  |-> <<[word |-> "a", level |-> 1], [word |-> "b", level |-> 2]>>],
     [tokens |-> <<Token("list", <<>>,
                         <<ItemToken("a", <<ItemToken("b", <<>>)>>), ItemToken("c", <<>>)>>)>>,
      items  |-> <<[word |-> "a", level |-> 1], [word |-> "b", level |-> 2],
                   [word |-> "c", level |-> 1]>>]}

\* renderTokens(tokens) of renderMarkdown(markdown, PAGE.MARGIN, CONTENT_WIDTH)
\* for a body that is one list; docSpec keeps the items of the list
RenderListCall ==
    /\ family = "layout"
    /\ renderer.draws = <<>>
    /\ renderer.cursorY \in InlineStarts
    /\ \E in \in ListInputs :
          /\ docSpec' = [items |-> in.items, y |-> renderer.cursorY]
          /\ renderer' = renderTokens(renderer, in.tokens, PAGE_MARGIN, CONTENT_WIDTH, 0)
    /\ gpc' = "markdown"
    /\ UNCHANGED <<family, calls, resumeText, templateId, sanitizedResumeText,
                   parsedData, sectionIdx, outcome, saved, alerts, firstResult>>
    /\ UNCHANGED <<textVars, extractVars, appVars>>

NextLayout == EnsurePageCall \/ AdvanceCursor \/ RenderInlineCall \/ RenderListCall

SpecLayout == InitLayout /\ [][NextLayout]_vars

(***************************************************************************)
(* Properties of the download dialog.                                      *)
(***************************************************************************)
\* the last four characters are ".pdf" in any mix of cases
HasPdfSuffix(name) ==
    /\ Len(name) >= 4
    /\ ToLowerCase(SubSeq(name, Len(name) - 3, Len(name))) = <<".", "p", "d", "f">>

\* C11: every filename handed to doc.save by the download action ends in
\* ".pdf" compared case-insensitively; a name without the suffix gets ".pdf"
\* appended once, a name that has it is passed unchanged, and a blank
\* filename triggers no generation at all.
C11_DownloadFilename ==
    /\ [](\A k \in 1..Len(savedAs) : HasPdfSuffix(savedAs[k]))
    /\ [][/\ savedAs' # savedAs
             => /\ savedAs' = Append(savedAs,
                                IF HasPdfSuffix(filename)
                                THEN filename
                                ELSE filename \o <<".", "p", "d", "f">>)
                /\ Trim(filename) # <<>>
          /\ Trim(filename) = <<>>
             => /\ calls' = calls /\ saved' = saved /\ alerts' = alerts
                /\ renderer' = renderer /\ savedAs' = savedAs]_vars

\* a name typed with an upper-case suffix was saved under that very name
C11_Witness ==
    /\ savedAs = <<(<<"a", ".", "P", "D", "F">>)>>
    /\ filename = <<"a", ".", "P", "D", "F">>
    /\ saved = 1 /\ ~isModalOpen

(***************************************************************************)
(* Properties of the failures.                                             *)
(***************************************************************************)
\* C12: when the decoder fails at any step, extractTextFromPdf returns no
\* text, not even that of the pages already assembled, and the caller shows
\* an error without navigating to the analyzer or updating the resume data.
C12_DecoderFailureIsTotal ==
    /\ [](failure # "none"
            => /\ extracted = <<>>
               /\ epc = "rejected"
               /\ upc = "idle" => (uiError /\ ~isLoading))
    /\ [][failure # "none"
            => /\ view' = view
               /\ resumeTextForAnalyzer' = resumeTextForAnalyzer
               /\ resumeData' = resumeData
               /\ upc = "extracting" => (uiError' /\ upc' = "idle")]_vars

\* reading the text of page 2 failed after page 1 had been assembled, and
\* the opening page shows the error
C12_Witness ==
    /\ failure = "getTextContent"
    /\ requests = <<1, 2>>
    /\ allPagesText = <<(<<"a">>)>>
    /\ upc = "idle" /\ uiError /\ view = "opening"
    /\ resumeTextForAnalyzer = <<>>

\* C13: a decoded PDF without pages results in an error shown to the user,
\* and no text, not even the empty string, is returned as the result of a
\* successful extraction.
C13_NoPagesIsAnError ==
    (uploads >= 1 /\ epc # "start" /\ failure = "none" /\ numPages = 0)
        => /\ extracted = <<>>
           /\ view # "analyzer"
           /\ resumeData = EmptyResume
           /\ upc = "idle" => uiError

\* C14: an error raised while generatePdfResume parses or lays out is caught
\* at the top level, the user is notified, and doc.save is not called for
\* that call; a file is saved only after the whole document has been laid
\* out without error.
C14_NoSaveAfterError ==
    /\ [][/\ saved' # saved
             => /\ saved' = saved + 1
                /\ ~renderer.threw
                /\ sectionIdx > Len(sectionOrder(templateId))
                /\ alerts' = alerts
          /\ (renderer.threw /\ gpc # "idle")
             => /\ saved' = saved
                /\ alerts' = alerts + 1
                /\ outcome' = "alert"]_vars
    /\ []((CallDone /\ renderer.threw) => (outcome = "alert" /\ alerts >= 1))

\* the header raised after the name had been drawn: alert, nothing saved
C14_Witness ==
    /\ CallDone
    /\ renderer.threw
    /\ Len(renderer.draws) = 1
    /\ outcome = "alert" /\ alerts = 1 /\ saved = 0

\* C15: a render error in generatePdfResume reaches the immediate caller as
\* a failure the caller can observe.
C15_RenderErrorReachesCaller ==
    (family = "download" /\ outcome = "alert") => callerSaw = "raised"

\* C16: when the text-completion service fails during a generation request
\* (before the first chunk, between chunks, or in the keyword call), an
\* error is shown and nothing of the failed request is left in the state:
\* generatedResumeText holds no truncated resume and suggestedKeywords is
\* not half-updated.
C16_NoPartialUpdate ==
    (hpc = "idle" /\ serviceFailure # "none")
        => /\ uiError
           /\ generatedResumeText \in {<<>>, prior.text}
           /\ suggestedKeywords \in {<<>>, prior.keywords}

(***************************************************************************)
(* Properties of the page-room check and of the layout.                    *)
(***************************************************************************)
\* C22: in every template, every word, every list marker and every section
\* title is drawn right after the page-room check: _ensurePage has run since
\* cursorY last changed when the draw command is issued.
C22_CheckedBeforeEveryUnit ==
    \A k \in 1..Len(renderer.draws) :
        renderer.draws[k].kind \in {"word", "bullet", "title"}
            => renderer.draws[k].checked

CursorXBefore(W, k, x) == IF k = 1 THEN x ELSE W[k - 1].x + getTextWidth(W[k - 1].text)

\* the line word k starts from: that of the word before it, or the top
\* margin when that line lies below the content height
LineBefore(W, k, y) ==
    LET prev == IF k = 1 THEN y ELSE W[k - 1].y IN
    IF prev > 277 THEN 20 ELSE prev

\* C24: in one inline run, every word whose width with its trailing space
\* would take cursorX beyond x + maxWidth is drawn at x one line height (5)
\* lower, every other word at cursorX on the current line, and cursorX then
\* advances by that width; so every word that is not the first on its line
\* lies within [x, x + maxWidth].
C24_WrapAtMaxWidth ==
    gpc = "inline"
        => LET W == DrawsOfKind(renderer.draws, "word")
               x == docSpec.x
               right == docSpec.x + docSpec.maxWidth
           IN  /\ Len(W) = Len(docSpec.words)
               /\ \A k \in 1..Len(W) :
                    LET wordWidth == getTextWidth(docSpec.words[k]) + 2
                        cursorX == CursorXBefore(W, k, x)
                        line == LineBefore(W, k, docSpec.y)
                    IN  /\ W[k].text = docSpec.words[k] \o <<SP>>
                        /\ IF cursorX + wordWidth > right
                           THEN W[k].x = x /\ W[k].y = line + 5
                           ELSE W[k].x = cursorX /\ W[k].y = line
                        /\ W[k].x # x
                             => x <= W[k].x /\ W[k].x + wordWidth <= right

\* three words of 100, 70 and 4 mm in a width of 170: the second ends
\* exactly at x + maxWidth and stays on the line, the third wraps
C24_Witness ==
    /\ gpc = "inline"
    /\ docSpec.x = 20 /\ docSpec.maxWidth = 170 /\ docSpec.y = 20
    /\ docSpec.words = <<(<<"W">>), Letters(34), (<<"a">>)>>
    /\ LET W == DrawsOfKind(renderer.draws, "word")
       IN  /\ Len(W) = 3
           /\ W[1].x = 20 /\ W[1].y = 20
           /\ W[2].x = 120 /\ W[2].y = 20
           /\ W[3].x = 20 /\ W[3].y = 25

\* C25: the items of a list at nesting depth L (1 for a top-level list, 2
\* for a list inside a list item) are all drawn, each with its marker at
\* x + 5 * L and its text 4 further right, so the items of a nested list
\* are drawn and stand deeper than their parent.
C25_NestedListIndent ==
    gpc = "markdown"
        => LET B == DrawsOfKind(renderer.draws, "bullet")
               W == DrawsOfKind(renderer.draws, "word")
               listItems == docSpec.items
           IN  /\ Len(B) = Len(listItems)
               /\ Len(W) = Len(listItems)
               /\ \A k \in 1..Len(listItems) :
                    /\ B[k].x = PAGE_MARGIN + 5 * listItems[k].level
                    /\ W[k].text = <<listItems[k].word, SP>>
                    /\ W[k].x = PAGE_MARGIN + 5 * listItems[k].level + 4

(***************************************************************************)
(* Properties of the two parsers.                                          *)
(***************************************************************************)
\* the map the sections of the preview give when the titles are lowercased
\* and a later section overwrites an earlier one of the same title
RECURSIVE AsSectionMap(_, _)
AsSectionMap(sections, map) ==
    IF sections = <<>> THEN map
    ELSE LET key == ToLowerCase(Head(sections).title) IN
         AsSectionMap(Tail(sections),
             [k \in (DOMAIN map) \cup {key} |->
                 IF k = key THEN Head(sections).content ELSE map[k]])

\* C26: the preview parser and the PDF parser agree on every Markdown text:
\* name and contact are equal, and the sections of the preview, with their
\* titles lowercased and later duplicates overwriting earlier ones, are the
\* section map of the PDF parser (same keys, same bodies).
C26_ParsersAgree ==
    parsed # <<>>
        => /\ HeaderAt(parsed[1], 0) = parsed[2].headerInfo.name
           /\ HeaderAt(parsed[1], 1) = parsed[2].headerInfo.contact
           /\ AsSectionMap(parsed[2].sections, EmptySections) = parsed[1].sections

\* C27: in every state of a render pass, for every template, every text draw
\* command (header, section title, list marker, word) is issued at a y
\* inside the content area, 20 <= y <= 277, and no end of a rule or of an
\* accent bar lies beyond the page height 297.
C27_DrawsInsideContentArea ==
    \A k \in 1..Len(renderer.draws) :
        LET d == renderer.draws[k] IN
        IF d.kind = "line"
        THEN d.y <= PAGE_HEIGHT /\ d.y2 <= PAGE_HEIGHT
        ELSE PAGE_MARGIN <= d.y /\ d.y <= PAGE_HEIGHT - PAGE_MARGIN

\* the keys a document of the render process can hold
SectionKeys ==
    {SummaryKey, SkillsKey, ExperienceKey, ProjectsKey, EducationKey, ReferencesKey}

\* C28 as stated: a section title is drawn if and only if the key of the
\* section is in the template's sectionOrder and the document contains the
\* key; a section with an empty body still has its title drawn.
C28_TitleIffKeyPresent ==
    (CallDone /\ outcome = "saved")
        => \A key \in SectionKeys :
              key \in Range(TitleKeys(renderer.draws))
                  <=> /\ key \in Range(sectionOrder(templateId))
                      /\ key \in DOMAIN parsedData.sections

\* C28 as amended: a section title is drawn if and only if the key of the
\* section is in the template's sectionOrder and the document holds a
\* non-empty body under the key; a section with an empty body is skipped
\* like an absent one.
C28_TitleIffBodyPresent ==
    (CallDone /\ outcome = "saved")
        => \A key \in SectionKeys :
              key \in Range(TitleKeys(renderer.draws))
                  <=> /\ key \in Range(sectionOrder(templateId))
                      /\ key \in DOMAIN parsedData.sections
                      /\ parsedData.sections[key] # <<>>

\* the technical template, "## Skills" with no body and "## Experience" with
\* a paragraph: the only title drawn is Experience
C28_Witness ==
    /\ CallDone /\ outcome = "saved"
    /\ templateId = "technical"
    /\ Len(docSpec.secs) = 2
    /\ docSpec.secs[1].title = SkillsKey /\ docSpec.secs[1].body.kind = "empty"
    /\ docSpec.secs[2].title = ExperienceKey /\ docSpec.secs[2].body.kind = "para"
    /\ DOMAIN parsedData.sections = {SkillsKey, ExperienceKey}
    /\ parsedData.sections[SkillsKey] = <<>>
    /\ TitleKeys(renderer.draws) = <<ExperienceKey>>

\* the lines of the text that start with "## "
HeadingLines(markdown) ==
    {line \in Range(Split(markdown, NL)) : StartsWith(line, <<"#", "#", " ">>)}

\* C29: every key of the parsed section map comes from a heading line: it
\* is the trimmed, lowercased text after the "## " of some line that starts
\* with "## "; text between the two header lines and the first heading
\* creates no entry.
C29_KeysComeFromHeadings ==
    parsed # <<>>
        => \A key \in DOMAIN parsed[1].sections :
              \E line \in HeadingLines(body) : key = ToLowerCase(Trim(Substring(line, 4)))

\* the section orders as the templates declare them
DeclaredOrder(tid) ==
    CASE tid = "technical" ->
            <<SummaryKey, SkillsKey, ProjectsKey, ExperienceKey, EducationKey>>
      [] tid = "modern" ->
            <<SummaryKey, ExperienceKey, ProjectsKey, SkillsKey, EducationKey>>
      [] OTHER ->
            <<SummaryKey, SkillsKey, ExperienceKey, ProjectsKey, EducationKey>>

\* C30: the dispatch on templateId is total: classic and professional draw
\* summary, skills, experience, projects, education; technical draws
\* summary, skills, projects, experience, education; modern draws summary,
\* experience, projects, skills, education; and any other templateId is
\* rendered exactly as classic.
C30_TemplateDispatch ==
    (CallDone /\ docSpec.hdr = 2)
        => /\ outcome = "saved"
           /\ TitleKeys(renderer.draws) =
                SelectSeq(DeclaredOrder(templateId),
                          LAMBDA key : /\ key \in DOMAIN parsedData.sections
                                       /\ parsedData.sections[key] # <<>>)
           /\ templateId \notin {"professional", "technical", "modern"}
                => /\ renderer.draws = RenderTemplate("classic", parsedData).draws
                   /\ renderer.pages = RenderTemplate("classic", parsedData).pages

\* the technical template draws Projects ahead of Experience, though the
\* source has Experience first
C30_Witness ==
    /\ CallDone /\ outcome = "saved"
    /\ templateId = "technical"
    /\ Len(docSpec.secs) = 2
    /\ docSpec.secs[1].title = ExperienceKey /\ docSpec.secs[1].body.kind = "para"
    /\ docSpec.secs[2].title = ProjectsKey /\ docSpec.secs[2].body.kind = "para"
    /\ TitleKeys(renderer.draws) = <<ProjectsKey, ExperienceKey>>

====
